---- MODULE Spec2Model ----
(***************************************************************************)
(* Risk scoring engine of the Student Data Risk Mapper                     *)
(* (app/services/scoring.py): five category scorers and a combiner that     *)
(* turn an AssessmentAnswers record into a ScoreResult.                     *)
(***************************************************************************)
EXTENDS Integers, Sequences, FiniteSets, TLC

VARIABLES
    answers,            \* answers[c]: the AssessmentAnswers caller c passed to calculate_risk_score
    pc,                 \* pc[c]: the statement of calculate_risk_score caller c is about to run
    locals,             \* locals[c]: the (score, reasons) pairs calculate_risk_score holds so far
    result,             \* result[c]: the ScoreResult returned to caller c
    DATA_TYPE_POINTS,   \* module-level dict of scoring.py
    REASON_TEMPLATES,   \* module-level dict of scoring.py
    risk_assessments    \* the rows of table risk_assessments, in insertion order

vars == <<answers, pc, locals, result, DATA_TYPE_POINTS, REASON_TEMPLATES, risk_assessments>>

----------------------------------------------------------------------------
(* Bounds of the model *)

\* longest data_types list enumerated over every key in every order
MaxDataTypes == 2
\* longest integration_types list enumerated over every type in every order
MaxIntegrationTypes == 3
\* number of callers running calculate_risk_score at the same time
NumCallers == 2
\* most enumerated fields holding a value outside their vocabulary at once
MaxUnrecognized == 2
\* most rows of risk_assessments
MaxAssessments == 3
\* how far below 0 and above 100 the scores given to the tier mappings go
MaxBeyond == 20

----------------------------------------------------------------------------
(* Module-level tables *)

DATA_TYPE_POINTS_0 ==
    ("iep_504" :> 8) @@ ("health" :> 8) @@ ("behavioral_sel" :> 7) @@
    ("biometrics" :> 8) @@ ("precise_location" :> 7) @@ ("discipline" :> 6) @@
    ("photos_video_audio" :> 4) @@ ("staff_notes" :> 4) @@
    ("academic_records" :> 3) @@ ("attendance_discipline" :> 3) @@
    ("directory_info" :> 2) @@ ("contact_info" :> 2) @@
    ("auth_identifiers" :> 1) @@ ("device_identifiers" :> 1)

REASON_TEMPLATES_0 ==
    ("SENS-IEP" :> "System handles IEP/504 data, which is highly sensitive under FERPA and IDEA.") @@
    ("SENS-HEALTH" :> "System collects health data, protected under FERPA and potentially HIPAA.") @@
    ("SENS-BEHAV" :> "System stores behavioral/SEL data, which can be stigmatizing if mishandled.") @@
    ("SENS-BIO" :> "System uses biometric data, requiring special consent and protections.") @@
    ("SENS-LOC" :> "System tracks precise student location, raising significant privacy concerns.") @@
    ("SENS-DISC" :> "System contains discipline records, which are sensitive under FERPA.") @@
    ("SENS-MEDIA" :> "System stores student photos, video, or audio recordings.") @@
    ("SENS-UNK" :> "Data types collected are unknown, adding uncertainty to risk assessment.") @@
    ("EXPO-SHARE" :> "Vendor indicates data is shared with third parties.") @@
    ("EXPO-ADS" :> "Data may be used for advertising or marketing purposes.") @@
    ("EXPO-AI" :> "Data may be used to train AI models.") @@
    ("EXPO-SOLD" :> "Vendor indicates data may be sold or monetized.") @@
    ("EXPO-SUBP" :> "Subprocessors are not disclosed, creating unknown exposure.") @@
    ("EXPO-GLOBAL" :> "Data may be stored or processed outside the US.") @@
    ("EXPO-BOTH" :> "Data stored in both vendor cloud and district systems increases exposure.") @@
    ("CTRL-NOSSO" :> "SSO is not supported or status is unknown.") @@
    ("CTRL-NOMFA" :> "Admin MFA is not available or unknown.") @@
    ("CTRL-NORBAC" :> "Role-based access controls are not available or unknown.") @@
    ("CTRL-NOTRANS" :> "Encryption in transit is not confirmed.") @@
    ("CTRL-NOREST" :> "Encryption at rest is not confirmed.") @@
    ("CTRL-NOAUDIT" :> "Audit logs are not available or unknown.") @@
    ("POST-RETUNK" :> "Retention policy is missing or unknown.") @@
    ("POST-DELUNK" :> "Data deletion process is unclear or requires manual support.") @@
    ("POST-NODEL" :> "No clear process exists for data deletion.") @@
    ("INT-APIKEY" :> "Integration uses API keys, increasing blast radius if exposed.") @@
    ("INT-REALTIME" :> "Real-time data sync increases potential impact of breaches.") @@
    ("INT-SISWB" :> "System writes data back to SIS, amplifying integration risk.") @@
    ("INT-MULTI" :> "Multiple integration types increase attack surface.")

----------------------------------------------------------------------------
(* Result structures and helpers *)

\* ReasonCode(code, explanation, category, points)
ReasonCode(code, explanation, category, points) ==
    [code |-> code, explanation |-> explanation, category |-> category, points |-> points]

\* Python's min(a, b)
min(a, b) == IF a <= b THEN a ELSE b

\* dict.get(key, default)
get(d, key, default) == IF key \in DOMAIN d THEN d[key] ELSE default

\* the entries of a list
Range(seq) == {seq[i] : i \in DOMAIN seq}

\* the (score, reasons) tuple a category scorer returns
ScoreAndReasons(score, reasons) == [score |-> score, reasons |-> reasons]

----------------------------------------------------------------------------
(* calculate_sensitivity_score *)

\* mutant: the SENS-DISC branch tests "discipline" alone
sensitivity_reason_discipline(data_type, points) ==
    IF data_type = "iep_504" THEN
        <<ReasonCode("SENS-IEP", REASON_TEMPLATES["SENS-IEP"], "sensitivity", points)>>
    ELSE IF data_type = "health" THEN
        <<ReasonCode("SENS-HEALTH", REASON_TEMPLATES["SENS-HEALTH"], "sensitivity", points)>>
    ELSE IF data_type = "behavioral_sel" THEN
        <<ReasonCode("SENS-BEHAV", REASON_TEMPLATES["SENS-BEHAV"], "sensitivity", points)>>
    ELSE IF data_type = "biometrics" THEN
        <<ReasonCode("SENS-BIO", REASON_TEMPLATES["SENS-BIO"], "sensitivity", points)>>
    ELSE IF data_type = "precise_location" THEN
        <<ReasonCode("SENS-LOC", REASON_TEMPLATES["SENS-LOC"], "sensitivity", points)>>
    ELSE IF data_type = "discipline" THEN
        <<ReasonCode("SENS-DISC", REASON_TEMPLATES["SENS-DISC"], "sensitivity", points)>>
    ELSE IF data_type = "photos_video_audio" THEN
        <<ReasonCode("SENS-MEDIA", REASON_TEMPLATES["SENS-MEDIA"], "sensitivity", points)>>
    ELSE <<>>

\* the if/elif chain of the loop body: the reason codes one data type appends
sensitivity_reason(data_type, points) ==
    IF data_type = "iep_504" THEN
        <<ReasonCode("SENS-IEP", REASON_TEMPLATES["SENS-IEP"], "sensitivity", points)>>
    ELSE IF data_type = "health" THEN
        <<ReasonCode("SENS-HEALTH", REASON_TEMPLATES["SENS-HEALTH"], "sensitivity", points)>>
    ELSE IF data_type = "behavioral_sel" THEN
        <<ReasonCode("SENS-BEHAV", REASON_TEMPLATES["SENS-BEHAV"], "sensitivity", points)>>
    ELSE IF data_type = "biometrics" THEN
        <<ReasonCode("SENS-BIO", REASON_TEMPLATES["SENS-BIO"], "sensitivity", points)>>
    ELSE IF data_type = "precise_location" THEN
        <<ReasonCode("SENS-LOC", REASON_TEMPLATES["SENS-LOC"], "sensitivity", points)>>
    ELSE IF data_type = "discipline" \/ data_type = "attendance_discipline" THEN
        <<ReasonCode("SENS-DISC", REASON_TEMPLATES["SENS-DISC"], "sensitivity", points)>>
    ELSE IF data_type = "photos_video_audio" THEN
        <<ReasonCode("SENS-MEDIA", REASON_TEMPLATES["SENS-MEDIA"], "sensitivity", points)>>
    ELSE <<>>

\* mutant: score = points for score += points
RECURSIVE sensitivity_loop_assign(_, _, _, _)
sensitivity_loop_assign(data_types, i, score, reasons) ==
    IF i > Len(data_types) THEN ScoreAndReasons(score, reasons)
    ELSE LET data_type == data_types[i]
             points == get(DATA_TYPE_POINTS, data_type, 0)
         IN  sensitivity_loop_assign(data_types, i + 1, points,
                                     reasons \o sensitivity_reason(data_type, points))

\* mutant: the loop ends as soon as the score has reached the cap
RECURSIVE sensitivity_loop_break(_, _, _, _)
sensitivity_loop_break(data_types, i, score, reasons) ==
    IF i > Len(data_types) \/ score >= 30 THEN ScoreAndReasons(score, reasons)
    ELSE LET data_type == data_types[i]
             points == get(DATA_TYPE_POINTS, data_type, 0)
         IN  sensitivity_loop_break(data_types, i + 1, score + points,
                                    reasons \o sensitivity_reason(data_type, points))

\* the for loop over answers.data_types, from entry i on
RECURSIVE sensitivity_loop(_, _, _, _)
sensitivity_loop(data_types, i, score, reasons) ==
    IF i > Len(data_types) THEN ScoreAndReasons(score, reasons)
    ELSE LET data_type == data_types[i]
             points == get(DATA_TYPE_POINTS, data_type, 0)
         IN  sensitivity_loop(data_types, i + 1, score + points,
                              reasons \o sensitivity_reason(data_type, points))

\* mutant: the final min(score, 30) left out
calculate_sensitivity_score_uncapped(a) ==
    IF a.data_types_unknown THEN
        ScoreAndReasons(0 + 10,
            <<ReasonCode("SENS-UNK", REASON_TEMPLATES["SENS-UNK"], "sensitivity", 10)>>)
    ELSE sensitivity_loop(a.data_types, 1, 0, <<>>)

\* mutant: the early return of the data_types_unknown branch left out, so the
\* penalty is added to the data types' points
calculate_sensitivity_score_additive(a) ==
    LET unk == IF a.data_types_unknown
               THEN ScoreAndReasons(10,
                        <<ReasonCode("SENS-UNK", REASON_TEMPLATES["SENS-UNK"], "sensitivity", 10)>>)
               ELSE ScoreAndReasons(0, <<>>)
        r == sensitivity_loop(a.data_types, 1, unk.score, unk.reasons)
    IN  ScoreAndReasons(min(r.score, 30), r.reasons)

calculate_sensitivity_score(a) ==
    IF a.data_types_unknown THEN
        ScoreAndReasons(min(0 + 10, 30),
            <<ReasonCode("SENS-UNK", REASON_TEMPLATES["SENS-UNK"], "sensitivity", 10)>>)
    ELSE LET r == sensitivity_loop(a.data_types, 1, 0, <<>>)
         IN  ScoreAndReasons(min(r.score, 30), r.reasons)

----------------------------------------------------------------------------
(* calculate_exposure_score *)

\* mutant: the elif value == "unknown" written as a plain else
exposure_field_else(value, hit, hit_points, code, unknown_points) ==
    IF value = hit THEN
        ScoreAndReasons(hit_points,
            <<ReasonCode(code, REASON_TEMPLATES[code], "exposure", hit_points)>>)
    ELSE ScoreAndReasons(unknown_points, <<>>)

\* mutant: the test for the penalized value turned round (!= for ==)
exposure_field_inverted(value, hit, hit_points, code, unknown_points) ==
    IF value # hit THEN
        ScoreAndReasons(hit_points,
            <<ReasonCode(code, REASON_TEMPLATES[code], "exposure", hit_points)>>)
    ELSE IF value = "unknown" THEN ScoreAndReasons(unknown_points, <<>>)
    ELSE ScoreAndReasons(0, <<>>)

\* mutant: the "unknown" branch appends the reason code too, as the
\* subprocessors block does
exposure_field_unknown_code(value, hit, hit_points, code, unknown_points) ==
    IF value = hit THEN
        ScoreAndReasons(hit_points,
            <<ReasonCode(code, REASON_TEMPLATES[code], "exposure", hit_points)>>)
    ELSE IF value = "unknown" THEN
        ScoreAndReasons(unknown_points,
            <<ReasonCode(code, REASON_TEMPLATES[code], "exposure", unknown_points)>>)
    ELSE ScoreAndReasons(0, <<>>)

\* mutant: the "unknown" branch adds the points of the penalized answer
exposure_field_unknown_full(value, hit, hit_points, code, unknown_points) ==
    IF value = hit THEN
        ScoreAndReasons(hit_points,
            <<ReasonCode(code, REASON_TEMPLATES[code], "exposure", hit_points)>>)
    ELSE IF value = "unknown" THEN ScoreAndReasons(hit_points, <<>>)
    ELSE ScoreAndReasons(0, <<>>)

\* one "if v == hit: +p, reason / elif v == 'unknown': +u" block
exposure_field(value, hit, hit_points, code, unknown_points) ==
    IF value = hit THEN
        ScoreAndReasons(hit_points,
            <<ReasonCode(code, REASON_TEMPLATES[code], "exposure", hit_points)>>)
    ELSE IF value = "unknown" THEN ScoreAndReasons(unknown_points, <<>>)
    ELSE ScoreAndReasons(0, <<>>)

\* the subprocessors block: "unknown" appends a reason code as well
exposure_subprocessors(value) ==
    IF value = "no" THEN
        ScoreAndReasons(4, <<ReasonCode("EXPO-SUBP", REASON_TEMPLATES["EXPO-SUBP"], "exposure", 4)>>)
    ELSE IF value = "unknown" THEN
        ScoreAndReasons(3, <<ReasonCode("EXPO-SUBP", REASON_TEMPLATES["EXPO-SUBP"], "exposure", 3)>>)
    ELSE ScoreAndReasons(0, <<>>)

\* mutant: the cap of the sensitivity scorer, 30, for 25
calculate_exposure_score_cap30(a) ==
    LET share  == exposure_field(a.third_party_sharing, "yes", 6, "EXPO-SHARE", 4)
        ads    == exposure_field(a.used_for_advertising, "yes", 5, "EXPO-ADS", 3)
        ai     == exposure_field(a.used_for_ai_training, "yes", 4, "EXPO-AI", 2)
        sold   == exposure_field(a.data_sold, "yes", 6, "EXPO-SOLD", 4)
        subp   == exposure_subprocessors(a.subprocessors_disclosed)
        region == exposure_field(a.data_region, "global", 3, "EXPO-GLOBAL", 2)
        store  == exposure_field(a.storage_location, "both", 2, "EXPO-BOTH", 2)
        score  == share.score + ads.score + ai.score + sold.score
                  + subp.score + region.score + store.score
    IN  ScoreAndReasons(min(score, 30),
            share.reasons \o ads.reasons \o ai.reasons \o sold.reasons
            \o subp.reasons \o region.reasons \o store.reasons)

calculate_exposure_score(a) ==
    LET share  == exposure_field(a.third_party_sharing, "yes", 6, "EXPO-SHARE", 4)
        ads    == exposure_field(a.used_for_advertising, "yes", 5, "EXPO-ADS", 3)
        ai     == exposure_field(a.used_for_ai_training, "yes", 4, "EXPO-AI", 2)
        sold   == exposure_field(a.data_sold, "yes", 6, "EXPO-SOLD", 4)
        subp   == exposure_subprocessors(a.subprocessors_disclosed)
        region == exposure_field(a.data_region, "global", 3, "EXPO-GLOBAL", 2)
        store  == exposure_field(a.storage_location, "both", 2, "EXPO-BOTH", 2)
        score  == share.score + ads.score + ai.score + sold.score
                  + subp.score + region.score + store.score
    IN  ScoreAndReasons(min(score, 25),
            share.reasons \o ads.reasons \o ai.reasons \o sold.reasons
            \o subp.reasons \o region.reasons \o store.reasons)

----------------------------------------------------------------------------
(* calculate_security_score *)

\* one "if <missing>: +p, reason" block
security_control(missing, points, code) ==
    IF missing THEN
        ScoreAndReasons(points,
            <<ReasonCode(code, REASON_TEMPLATES[code], "security", points)>>)
    ELSE ScoreAndReasons(0, <<>>)

\* mutant: the polarity of the exposure scorer, a control that is present is
\* the one penalized
calculate_security_score_polarity(a) ==
    LET sso   == security_control(a.sso_supported \notin {"none", "unknown"}, 4, "CTRL-NOSSO")
        mfa   == security_control(a.mfa_available = "yes", 4, "CTRL-NOMFA")
        rbac  == security_control(a.rbac_available = "yes", 3, "CTRL-NORBAC")
        trans == security_control(a.encryption_transit = "yes", 3, "CTRL-NOTRANS")
        rest  == security_control(a.encryption_rest = "yes", 3, "CTRL-NOREST")
        audit == security_control(a.audit_logs_available = "yes", 3, "CTRL-NOAUDIT")
        score == sso.score + mfa.score + rbac.score + trans.score + rest.score + audit.score
    IN  ScoreAndReasons(min(score, 20),
            sso.reasons \o mfa.reasons \o rbac.reasons \o trans.reasons
            \o rest.reasons \o audit.reasons)

\* mutant: a control is penalized for the answer "no" alone
calculate_security_score_no_only(a) ==
    LET sso   == security_control(a.sso_supported \in {"none", "unknown"}, 4, "CTRL-NOSSO")
        mfa   == security_control(a.mfa_available = "no", 4, "CTRL-NOMFA")
        rbac  == security_control(a.rbac_available = "no", 3, "CTRL-NORBAC")
        trans == security_control(a.encryption_transit = "no", 3, "CTRL-NOTRANS")
        rest  == security_control(a.encryption_rest = "no", 3, "CTRL-NOREST")
        audit == security_control(a.audit_logs_available = "no", 3, "CTRL-NOAUDIT")
        score == sso.score + mfa.score + rbac.score + trans.score + rest.score + audit.score
    IN  ScoreAndReasons(min(score, 20),
            sso.reasons \o mfa.reasons \o rbac.reasons \o trans.reasons
            \o rest.reasons \o audit.reasons)

\* mutant: the cap of the posture scorer, 15, for 20
calculate_security_score_cap15(a) ==
    LET sso   == security_control(a.sso_supported \in {"none", "unknown"}, 4, "CTRL-NOSSO")
        mfa   == security_control(a.mfa_available # "yes", 4, "CTRL-NOMFA")
        rbac  == security_control(a.rbac_available # "yes", 3, "CTRL-NORBAC")
        trans == security_control(a.encryption_transit # "yes", 3, "CTRL-NOTRANS")
        rest  == security_control(a.encryption_rest # "yes", 3, "CTRL-NOREST")
        audit == security_control(a.audit_logs_available # "yes", 3, "CTRL-NOAUDIT")
        score == sso.score + mfa.score + rbac.score + trans.score + rest.score + audit.score
    IN  ScoreAndReasons(min(score, 15),
            sso.reasons \o mfa.reasons \o rbac.reasons \o trans.reasons
            \o rest.reasons \o audit.reasons)

calculate_security_score(a) ==
    LET sso   == security_control(a.sso_supported \in {"none", "unknown"}, 4, "CTRL-NOSSO")
        mfa   == security_control(a.mfa_available # "yes", 4, "CTRL-NOMFA")
        rbac  == security_control(a.rbac_available # "yes", 3, "CTRL-NORBAC")
        trans == security_control(a.encryption_transit # "yes", 3, "CTRL-NOTRANS")
        rest  == security_control(a.encryption_rest # "yes", 3, "CTRL-NOREST")
        audit == security_control(a.audit_logs_available # "yes", 3, "CTRL-NOAUDIT")
        score == sso.score + mfa.score + rbac.score + trans.score + rest.score + audit.score
    IN  ScoreAndReasons(min(score, 20),
            sso.reasons \o mfa.reasons \o rbac.reasons \o trans.reasons
            \o rest.reasons \o audit.reasons)

----------------------------------------------------------------------------
(* calculate_posture_score *)

\* mutant: 9 points for retention, with which the two blocks reach the cap 15
posture_retention_nine(value) ==
    IF value # "yes" THEN
        ScoreAndReasons(9, <<ReasonCode("POST-RETUNK", REASON_TEMPLATES["POST-RETUNK"], "posture", 9)>>)
    ELSE ScoreAndReasons(0, <<>>)

posture_retention(value) ==
    IF value # "yes" THEN
        ScoreAndReasons(6, <<ReasonCode("POST-RETUNK", REASON_TEMPLATES["POST-RETUNK"], "posture", 6)>>)
    ELSE ScoreAndReasons(0, <<>>)

\* mutant: the support_ticket branch adds 3 and reports the 5 points of the
\* "unknown" branch in its POST-DELUNK code
posture_deletion_ticket(value) ==
    IF value = "no" THEN
        ScoreAndReasons(6, <<ReasonCode("POST-NODEL", REASON_TEMPLATES["POST-NODEL"], "posture", 6)>>)
    ELSE IF value = "unknown" THEN
        ScoreAndReasons(5, <<ReasonCode("POST-DELUNK", REASON_TEMPLATES["POST-DELUNK"], "posture", 5)>>)
    ELSE IF value = "support_ticket" THEN
        ScoreAndReasons(3, <<ReasonCode("POST-DELUNK", REASON_TEMPLATES["POST-DELUNK"], "posture", 5)>>)
    ELSE ScoreAndReasons(0, <<>>)

\* mutant: the support_ticket branch takes the explanation of POST-NODEL
posture_deletion_template(value) ==
    IF value = "no" THEN
        ScoreAndReasons(6, <<ReasonCode("POST-NODEL", REASON_TEMPLATES["POST-NODEL"], "posture", 6)>>)
    ELSE IF value = "unknown" THEN
        ScoreAndReasons(5, <<ReasonCode("POST-DELUNK", REASON_TEMPLATES["POST-DELUNK"], "posture", 5)>>)
    ELSE IF value = "support_ticket" THEN
        ScoreAndReasons(3, <<ReasonCode("POST-DELUNK", REASON_TEMPLATES["POST-NODEL"], "posture", 3)>>)
    ELSE ScoreAndReasons(0, <<>>)

posture_deletion(value) ==
    IF value = "no" THEN
        ScoreAndReasons(6, <<ReasonCode("POST-NODEL", REASON_TEMPLATES["POST-NODEL"], "posture", 6)>>)
    ELSE IF value = "unknown" THEN
        ScoreAndReasons(5, <<ReasonCode("POST-DELUNK", REASON_TEMPLATES["POST-DELUNK"], "posture", 5)>>)
    ELSE IF value = "support_ticket" THEN
        ScoreAndReasons(3, <<ReasonCode("POST-DELUNK", REASON_TEMPLATES["POST-DELUNK"], "posture", 3)>>)
    ELSE ScoreAndReasons(0, <<>>)

\* mutant: the retention block also looks at subprocessors_disclosed, the
\* field asked next to it on the form
calculate_posture_score_subprocessors(a) ==
    LET retention == posture_retention(IF a.subprocessors_disclosed = "yes"
                                       THEN a.retention_policy_stated ELSE "no")
        deletion  == posture_deletion(a.deletion_process)
    IN  ScoreAndReasons(min(retention.score + deletion.score, 15),
            retention.reasons \o deletion.reasons)

calculate_posture_score(a) ==
    LET retention == posture_retention(a.retention_policy_stated)
        deletion  == posture_deletion(a.deletion_process)
    IN  ScoreAndReasons(min(retention.score + deletion.score, 15),
            retention.reasons \o deletion.reasons)

----------------------------------------------------------------------------
(* calculate_integration_score *)

\* mutant: "unknown" weighs more than the penalized answer
integration_field_unknown_worst(value, hit, hit_points, code, unknown_points) ==
    IF value = hit THEN
        ScoreAndReasons(hit_points,
            <<ReasonCode(code, REASON_TEMPLATES[code], "integration", hit_points)>>)
    ELSE IF value = "unknown" THEN ScoreAndReasons(hit_points + unknown_points, <<>>)
    ELSE ScoreAndReasons(0, <<>>)

\* one "if v == hit: +p, reason / elif v == 'unknown': +u" block
integration_field(value, hit, hit_points, code, unknown_points) ==
    IF value = hit THEN
        ScoreAndReasons(hit_points,
            <<ReasonCode(code, REASON_TEMPLATES[code], "integration", hit_points)>>)
    ELSE IF value = "unknown" THEN ScoreAndReasons(unknown_points, <<>>)
    ELSE ScoreAndReasons(0, <<>>)

\* the "multiple integration types" block: len() of the list
integration_multi(integration_types) ==
    IF Len(integration_types) >= 3 THEN
        ScoreAndReasons(2, <<ReasonCode("INT-MULTI", REASON_TEMPLATES["INT-MULTI"], "integration", 2)>>)
    ELSE ScoreAndReasons(0, <<>>)

\* mutant: the return without the cap of 10
calculate_integration_score_uncapped(a) ==
    LET method == integration_field(a.integration_method, "api_key", 3, "INT-APIKEY", 2)
        freq   == integration_field(a.integration_frequency, "realtime", 3, "INT-REALTIME", 1)
        wb     == integration_field(a.sis_writeback, "yes", 3, "INT-SISWB", 2)
        multi  == integration_multi(a.integration_types)
    IN  ScoreAndReasons(method.score + freq.score + wb.score + multi.score,
            method.reasons \o freq.reasons \o wb.reasons \o multi.reasons)

calculate_integration_score(a) ==
    LET method == integration_field(a.integration_method, "api_key", 3, "INT-APIKEY", 2)
        freq   == integration_field(a.integration_frequency, "realtime", 3, "INT-REALTIME", 1)
        wb     == integration_field(a.sis_writeback, "yes", 3, "INT-SISWB", 2)
        multi  == integration_multi(a.integration_types)
    IN  ScoreAndReasons(min(method.score + freq.score + wb.score + multi.score, 10),
            method.reasons \o freq.reasons \o wb.reasons \o multi.reasons)

----------------------------------------------------------------------------
(* determine_risk_tier and the combiner of calculate_risk_score *)

\* mutant: exclusive upper bounds (< for <=)
determine_risk_tier_exclusive(score) ==
    IF score < 25 THEN "Low"
    ELSE IF score < 50 THEN "Moderate"
    ELSE IF score < 75 THEN "High"
    ELSE "Critical"

\* mutant: the comparisons turned round (>= for <=)
determine_risk_tier_inverted(score) ==
    IF score >= 25 THEN "Low"
    ELSE IF score >= 50 THEN "Moderate"
    ELSE IF score >= 75 THEN "High"
    ELSE "Critical"

determine_risk_tier(score) ==
    IF score <= 25 THEN "Low"
    ELSE IF score <= 50 THEN "Moderate"
    ELSE IF score <= 75 THEN "High"
    ELSE "Critical"

\* list.sort(key=lambda r: r.points, reverse=True): a stable sort, descending by
\* points; entries with equal points keep their relative order.  Computed as a
\* stable insertion: each entry goes after every entry with points >= its own.
\* mutant: an unstable sort, which puts an entry before those with equal points
RECURSIVE insert_before_equal(_, _)
insert_before_equal(sorted, r) ==
    IF sorted = <<>> THEN <<r>>
    ELSE IF Head(sorted).points > r.points
         THEN <<Head(sorted)>> \o insert_before_equal(Tail(sorted), r)
         ELSE <<r>> \o sorted

RECURSIVE insert_by_points(_, _)
insert_by_points(sorted, r) ==
    IF sorted = <<>> THEN <<r>>
    ELSE IF Head(sorted).points >= r.points
         THEN <<Head(sorted)>> \o insert_by_points(Tail(sorted), r)
         ELSE <<r>> \o sorted

RECURSIVE sort_by_points(_, _, _)
sort_by_points(all_reasons, i, sorted) ==
    IF i > Len(all_reasons) THEN sorted
    ELSE sort_by_points(all_reasons, i + 1, insert_by_points(sorted, all_reasons[i]))

\* mutant: the total leaves int_score out of the sum
combine_four(sens, expo, sec, post, int) ==
    LET total == min(sens.score + expo.score + sec.score + post.score, 100)
        all_reasons == sens.reasons \o expo.reasons \o sec.reasons \o post.reasons \o int.reasons
    IN  [total |-> total,
         breakdown |-> [sensitivity |-> sens.score,
                        exposure |-> expo.score,
                        security_controls |-> sec.score,
                        vendor_posture |-> post.score,
                        integration_blast_radius |-> int.score],
         reason_codes |-> sort_by_points(all_reasons, 1, <<>>),
         risk_tier |-> determine_risk_tier(total)]

\* the "Combine" half of calculate_risk_score, from the five scorers' returns
combine(sens, expo, sec, post, int) ==
    LET total == min(sens.score + expo.score + sec.score + post.score + int.score, 100)
        all_reasons == sens.reasons \o expo.reasons \o sec.reasons \o post.reasons \o int.reasons
    IN  [total |-> total,
         breakdown |-> [sensitivity |-> sens.score,
                        exposure |-> expo.score,
                        security_controls |-> sec.score,
                        vendor_posture |-> post.score,
                        integration_blast_radius |-> int.score],
         reason_codes |-> sort_by_points(all_reasons, 1, <<>>),
         risk_tier |-> determine_risk_tier(total)]

\* calculate_risk_score run to completion by one caller on its own
calculate_risk_score(a) ==
    combine(calculate_sensitivity_score(a), calculate_exposure_score(a),
            calculate_security_score(a), calculate_posture_score(a),
            calculate_integration_score(a))

----------------------------------------------------------------------------
(* AssessmentAnswers: vocabularies of app/schemas/assessment.py *)

StorageLocation == {"vendor_cloud", "district", "both", "unknown"}
DataRegion == {"us_only", "eu", "global", "unknown"}
YesNoUnknown == {"yes", "no", "unknown"}
SSOOption == {"entra", "google", "other", "none", "unknown"}
DeletionProcess == {"self_serve", "support_ticket", "no", "unknown"}
IntegrationType == {"sis", "lms", "sso", "oneroster", "api", "csv_upload"}
IntegrationMethod == {"oauth", "api_key", "csv_manual", "unknown"}
IntegrationFrequency == {"realtime", "nightly", "adhoc", "unknown"}

\* AssessmentAnswers() with every field at its default
AssessmentAnswers ==
    [data_types |-> <<>>, data_types_unknown |-> FALSE,
     storage_location |-> "unknown", data_region |-> "unknown",
     subprocessors_disclosed |-> "unknown", retention_policy_stated |-> "unknown",
     deletion_process |-> "unknown",
     sso_supported |-> "unknown", mfa_available |-> "unknown",
     rbac_available |-> "unknown", encryption_transit |-> "unknown",
     encryption_rest |-> "unknown", audit_logs_available |-> "unknown",
     third_party_sharing |-> "unknown", used_for_advertising |-> "unknown",
     used_for_ai_training |-> "unknown", data_sold |-> "unknown",
     integration_types |-> <<>>, integration_method |-> "unknown",
     integration_frequency |-> "unknown", sis_writeback |-> "unknown"]

\* the declared vocabulary of every single-valued enumerated field
Vocabulary ==
    [storage_location |-> StorageLocation, data_region |-> DataRegion,
     subprocessors_disclosed |-> YesNoUnknown, retention_policy_stated |-> YesNoUnknown,
     deletion_process |-> DeletionProcess,
     sso_supported |-> SSOOption, mfa_available |-> YesNoUnknown,
     rbac_available |-> YesNoUnknown, encryption_transit |-> YesNoUnknown,
     encryption_rest |-> YesNoUnknown, audit_logs_available |-> YesNoUnknown,
     third_party_sharing |-> YesNoUnknown, used_for_advertising |-> YesNoUnknown,
     used_for_ai_training |-> YesNoUnknown, data_sold |-> YesNoUnknown,
     integration_method |-> IntegrationMethod,
     integration_frequency |-> IntegrationFrequency, sis_writeback |-> YesNoUnknown]

EnumFields == DOMAIN Vocabulary

----------------------------------------------------------------------------
(* The answer sets of the test suite (tests/conftest.py, tests/test_scoring.py) *)

minimal_answers == AssessmentAnswers

low_risk_answers ==
    [data_types |-> <<"directory_info", "auth_identifiers">>, data_types_unknown |-> FALSE,
     storage_location |-> "vendor_cloud", data_region |-> "us_only",
     subprocessors_disclosed |-> "yes", retention_policy_stated |-> "yes",
     deletion_process |-> "self_serve",
     sso_supported |-> "entra", mfa_available |-> "yes",
     rbac_available |-> "yes", encryption_transit |-> "yes",
     encryption_rest |-> "yes", audit_logs_available |-> "yes",
     third_party_sharing |-> "no", used_for_advertising |-> "no",
     used_for_ai_training |-> "no", data_sold |-> "no",
     integration_types |-> <<"sso">>, integration_method |-> "oauth",
     integration_frequency |-> "nightly", sis_writeback |-> "no"]

high_risk_answers ==
    [data_types |-> <<"iep_504", "health", "behavioral_sel", "biometrics",
                      "academic_records", "directory_info">>,
     data_types_unknown |-> FALSE,
     storage_location |-> "both", data_region |-> "global",
     subprocessors_disclosed |-> "no", retention_policy_stated |-> "no",
     deletion_process |-> "no",
     sso_supported |-> "none", mfa_available |-> "no",
     rbac_available |-> "unknown", encryption_transit |-> "unknown",
     encryption_rest |-> "no", audit_logs_available |-> "no",
     third_party_sharing |-> "yes", used_for_advertising |-> "yes",
     used_for_ai_training |-> "yes", data_sold |-> "unknown",
     integration_types |-> <<"sis", "lms", "api">>, integration_method |-> "api_key",
     integration_frequency |-> "realtime", sis_writeback |-> "yes"]

unknown_data_answers == [AssessmentAnswers EXCEPT !.data_types_unknown = TRUE]

\* the answers of TestFullScoring.test_score_capped_at_100
maximal_answers ==
    [data_types |-> <<"iep_504", "health", "behavioral_sel", "biometrics",
                      "precise_location", "discipline", "photos_video_audio",
                      "staff_notes", "academic_records">>,
     data_types_unknown |-> FALSE,
     storage_location |-> "both", data_region |-> "global",
     subprocessors_disclosed |-> "no", retention_policy_stated |-> "no",
     deletion_process |-> "no",
     sso_supported |-> "none", mfa_available |-> "no",
     rbac_available |-> "no", encryption_transit |-> "no",
     encryption_rest |-> "no", audit_logs_available |-> "no",
     third_party_sharing |-> "yes", used_for_advertising |-> "yes",
     used_for_ai_training |-> "yes", data_sold |-> "yes",
     integration_types |-> <<"sis", "lms", "api", "sso">>, integration_method |-> "api_key",
     integration_frequency |-> "realtime", sis_writeback |-> "yes"]

----------------------------------------------------------------------------
(* Input sets: the answer sets calculate_risk_score is run on *)

SeqsUpTo(S, n) == UNION {[1..k -> S] : k \in 0..n}

\* the keys of DATA_TYPE_POINTS in the order of the table
DataTypeOrder ==
    <<"iep_504", "health", "behavioral_sel", "biometrics", "precise_location",
      "discipline", "photos_video_audio", "staff_notes", "academic_records",
      "attendance_discipline", "directory_info", "contact_info",
      "auth_identifiers", "device_identifiers">>

HighSensitivity ==
    {"iep_504", "health", "behavioral_sel", "biometrics", "precise_location", "discipline"}
LowSensitivity ==
    {"directory_info", "contact_info", "auth_identifiers", "device_identifiers"}

\* a key that DATA_TYPE_POINTS does not hold (data_types is list[str], unvalidated)
UnrecognizedDataType == "new_data_type"
DataTypeKeys == DOMAIN DATA_TYPE_POINTS_0 \cup {UnrecognizedDataType}

\* the keys of S as a list, in table order, each once
ListOf(S) == SelectSeq(DataTypeOrder, LAMBDA k : k \in S)

\* the data_types of TestSensitivityScoring.test_mixed_sensitivity_data
mixed_sensitivity_data == <<"iep_504", "health", "directory_info">>

\* data_types lists: every list up to MaxDataTypes entries (any key, any order,
\* repeats included), every selection of high-sensitivity and of low-sensitivity
\* types, and the lists of the test suite
DataTypeLists ==
    SeqsUpTo(DataTypeKeys, MaxDataTypes)
    \cup {ListOf(S) : S \in SUBSET HighSensitivity}
    \cup {ListOf(S) : S \in SUBSET LowSensitivity}
    \cup {low_risk_answers.data_types, high_risk_answers.data_types,
          maximal_answers.data_types, mixed_sensitivity_data}

IntegrationTypeLists ==
    SeqsUpTo(IntegrationType, MaxIntegrationTypes)
    \cup {maximal_answers.integration_types}

Fixtures ==
    {minimal_answers, low_risk_answers, high_risk_answers, unknown_data_answers,
     maximal_answers}

WithSensitivity(b) ==
    {[b EXCEPT !.data_types = d, !.data_types_unknown = u] :
        d \in DataTypeLists, u \in BOOLEAN}

WithExposure(b) ==
    {[b EXCEPT !.third_party_sharing = v[1], !.used_for_advertising = v[2],
               !.used_for_ai_training = v[3], !.data_sold = v[4],
               !.subprocessors_disclosed = v[5], !.data_region = v[6],
               !.storage_location = v[7]] :
        v \in YesNoUnknown \X YesNoUnknown \X YesNoUnknown \X YesNoUnknown
              \X YesNoUnknown \X DataRegion \X StorageLocation}

WithSecurity(b) ==
    {[b EXCEPT !.sso_supported = v[1], !.mfa_available = v[2], !.rbac_available = v[3],
               !.encryption_transit = v[4], !.encryption_rest = v[5],
               !.audit_logs_available = v[6]] :
        v \in SSOOption \X YesNoUnknown \X YesNoUnknown \X YesNoUnknown
              \X YesNoUnknown \X YesNoUnknown}

WithPosture(b) ==
    {[b EXCEPT !.retention_policy_stated = v[1], !.deletion_process = v[2]] :
        v \in YesNoUnknown \X DeletionProcess}

WithIntegration(b) ==
    {[b EXCEPT !.integration_method = v[1], !.integration_frequency = v[2],
               !.sis_writeback = v[3]] :
        v \in IntegrationMethod \X IntegrationFrequency \X YesNoUnknown}
    \cup {[b EXCEPT !.integration_types = t] : t \in IntegrationTypeLists}

\* every valid answer set that differs from fixture b in the fields of one category
InputsOf(b) ==
    WithSensitivity(b) \cup WithExposure(b) \cup WithSecurity(b)
    \cup WithPosture(b) \cup WithIntegration(b)

----------------------------------------------------------------------------
(* calculate_risk_score as run by a caller, one statement at a time *)

\* a local not assigned yet, a result not returned yet
Unassigned == ScoreAndReasons(-1, <<>>)
NoLocals ==
    [sens |-> Unassigned, expo |-> Unassigned, sec |-> Unassigned,
     post |-> Unassigned, int |-> Unassigned]
NoResult ==
    [total |-> -1, breakdown |-> <<>>, reason_codes |-> <<>>, risk_tier |-> "none"]

InitWith(callers, inputs) ==
    /\ answers \in [callers -> inputs]
    /\ pc = [c \in callers |-> "sensitivity"]
    /\ locals = [c \in callers |-> NoLocals]
    /\ result = [c \in callers |-> NoResult]
    /\ DATA_TYPE_POINTS = DATA_TYPE_POINTS_0
    /\ REASON_TEMPLATES = REASON_TEMPLATES_0
    /\ risk_assessments = <<>>

\* mutant: sens_score and sens_reasons kept in module-level variables that
\* every running call shares
Sensitivity_shared(c) ==
    /\ pc[c] = "sensitivity"
    /\ locals' = [d \in DOMAIN locals |->
                    [locals[d] EXCEPT !.sens = calculate_sensitivity_score(answers[c])]]
    /\ pc' = [pc EXCEPT ![c] = "exposure"]
    /\ UNCHANGED <<answers, result, DATA_TYPE_POINTS, REASON_TEMPLATES, risk_assessments>>

\* mutant: DATA_TYPE_POINTS.setdefault(data_type, 0) for .get(data_type, 0),
\* which stores every key it does not find
Sensitivity_setdefault(c) ==
    /\ pc[c] = "sensitivity"
    /\ locals' = [locals EXCEPT ![c].sens = calculate_sensitivity_score(answers[c])]
    /\ pc' = [pc EXCEPT ![c] = "exposure"]
    /\ DATA_TYPE_POINTS' =
         IF answers[c].data_types_unknown THEN DATA_TYPE_POINTS
         ELSE [k \in DOMAIN DATA_TYPE_POINTS \cup Range(answers[c].data_types) |->
                 get(DATA_TYPE_POINTS, k, 0)]
    /\ UNCHANGED <<answers, result, REASON_TEMPLATES, risk_assessments>>

\* sens_score, sens_reasons = calculate_sensitivity_score(answers)
Sensitivity(c) ==
    /\ pc[c] = "sensitivity"
    /\ locals' = [locals EXCEPT ![c].sens = calculate_sensitivity_score(answers[c])]
    /\ pc' = [pc EXCEPT ![c] = "exposure"]
    /\ UNCHANGED <<answers, result, DATA_TYPE_POINTS, REASON_TEMPLATES, risk_assessments>>

\* expo_score, expo_reasons = calculate_exposure_score(answers)
Exposure(c) ==
    /\ pc[c] = "exposure"
    /\ locals' = [locals EXCEPT ![c].expo = calculate_exposure_score(answers[c])]
    /\ pc' = [pc EXCEPT ![c] = "security"]
    /\ UNCHANGED <<answers, result, DATA_TYPE_POINTS, REASON_TEMPLATES, risk_assessments>>

\* sec_score, sec_reasons = calculate_security_score(answers)
Security(c) ==
    /\ pc[c] = "security"
    /\ locals' = [locals EXCEPT ![c].sec = calculate_security_score(answers[c])]
    /\ pc' = [pc EXCEPT ![c] = "posture"]
    /\ UNCHANGED <<answers, result, DATA_TYPE_POINTS, REASON_TEMPLATES, risk_assessments>>

\* post_score, post_reasons = calculate_posture_score(answers)
Posture(c) ==
    /\ pc[c] = "posture"
    /\ locals' = [locals EXCEPT ![c].post = calculate_posture_score(answers[c])]
    /\ pc' = [pc EXCEPT ![c] = "integration"]
    /\ UNCHANGED <<answers, result, DATA_TYPE_POINTS, REASON_TEMPLATES, risk_assessments>>

\* int_score, int_reasons = calculate_integration_score(answers)
Integration(c) ==
    /\ pc[c] = "integration"
    /\ locals' = [locals EXCEPT ![c].int = calculate_integration_score(answers[c])]
    /\ pc' = [pc EXCEPT ![c] = "combine"]
    /\ UNCHANGED <<answers, result, DATA_TYPE_POINTS, REASON_TEMPLATES, risk_assessments>>

\* total, breakdown, sorted reasons, tier; return ScoreResult(...)
Combine(c) ==
    /\ pc[c] = "combine"
    /\ result' = [result EXCEPT ![c] =
                    combine(locals[c].sens, locals[c].expo, locals[c].sec,
                            locals[c].post, locals[c].int)]
    /\ pc' = [pc EXCEPT ![c] = "done"]
    /\ UNCHANGED <<answers, locals, DATA_TYPE_POINTS, REASON_TEMPLATES, risk_assessments>>

Step(c) ==
    \/ Sensitivity(c)
    \/ Exposure(c)
    \/ Security(c)
    \/ Posture(c)
    \/ Integration(c)
    \/ Combine(c)

\* one caller, any valid answer set around a fixture
Caller == {1}
Init == \E b \in Fixtures : InitWith(Caller, InputsOf(b))
Next == \E c \in Caller : Step(c)
Spec == Init /\ [][Next]_vars

----------------------------------------------------------------------------
(* The five scorer calls of calculate_risk_score evaluated in any order *)

\* the scorer behind each local
Scorer(k, a) ==
    CASE k = "sens" -> calculate_sensitivity_score(a)
      [] k = "expo" -> calculate_exposure_score(a)
      [] k = "sec"  -> calculate_security_score(a)
      [] k = "post" -> calculate_posture_score(a)
      [] k = "int"  -> calculate_integration_score(a)

\* one of the five calls that has not run yet runs; after the last one the
\* caller goes on to the combiner
Evaluate(c, k) ==
    /\ pc[c] = "scorers"
    /\ locals[c][k] = Unassigned
    /\ locals' = [locals EXCEPT ![c][k] = Scorer(k, answers[c])]
    /\ pc' = [pc EXCEPT ![c] =
                IF \A j \in DOMAIN NoLocals \ {k} : locals[c][j] # Unassigned
                THEN "combine" ELSE "scorers"]
    /\ UNCHANGED <<answers, result, DATA_TYPE_POINTS, REASON_TEMPLATES, risk_assessments>>

\* answer sets that differ from a fixture in the security, posture or
\* integration fields
AnyOrderInputs(b) == WithSecurity(b) \cup WithPosture(b) \cup WithIntegration(b)

InitAnyOrder ==
    \E b \in Fixtures :
        /\ answers \in [Caller -> AnyOrderInputs(b)]
        /\ pc = [c \in Caller |-> "scorers"]
        /\ locals = [c \in Caller |-> NoLocals]
        /\ result = [c \in Caller |-> NoResult]
        /\ DATA_TYPE_POINTS = DATA_TYPE_POINTS_0
        /\ REASON_TEMPLATES = REASON_TEMPLATES_0
        /\ risk_assessments = <<>>

NextAnyOrder ==
    \E c \in Caller :
        \/ \E k \in DOMAIN NoLocals : Evaluate(c, k)
        \/ Combine(c)

SpecAnyOrder == InitAnyOrder /\ [][NextAnyOrder]_vars

----------------------------------------------------------------------------
(* Answer sets that differ from a fixture in single-valued fields of one
   category, and answer sets that differ from it in one of the two lists *)

FieldInputs(b) ==
    WithExposure(b) \cup WithSecurity(b) \cup WithPosture(b) \cup WithIntegration(b)

InitFields == \E b \in Fixtures : InitWith(Caller, FieldInputs(b))
SpecFields == InitFields /\ [][Next]_vars

ListInputs(b) ==
    WithSensitivity(b) \cup {[b EXCEPT !.integration_types = t] : t \in IntegrationTypeLists}

InitLists == \E b \in Fixtures : InitWith(Caller, ListInputs(b))
SpecLists == InitLists /\ [][Next]_vars

----------------------------------------------------------------------------
(* Answer sets that bypassed validation: enumerated fields outside their vocabulary *)

\* a string no vocabulary holds
Unrecognized == "maybe"

RECURSIVE SetFields(_, _, _)
SetFields(a, F, value) ==
    IF F = {} THEN a
    ELSE LET f == CHOOSE x \in F : TRUE
         IN  SetFields([a EXCEPT ![f] = value], F \ {f}, value)

Unvalidated(b) ==
    {SetFields(b, F, Unrecognized) :
        F \in {G \in SUBSET EnumFields : Cardinality(G) \in 1..MaxUnrecognized}}

InitUnvalidated == \E b \in Fixtures : InitWith(Caller, Unvalidated(b))
SpecUnvalidated == InitUnvalidated /\ [][Next]_vars

----------------------------------------------------------------------------
(* High-risk answer sets: the fields the high-risk scenario fixes, every value
   of the others *)

\* at least two high-sensitivity types: every pair, and all six
HighRiskDataTypes ==
    {ListOf(S) : S \in {T \in SUBSET HighSensitivity : Cardinality(T) \in {2, 6}}}

HighRiskInputs ==
    {[data_types |-> d, data_types_unknown |-> FALSE,
      storage_location |-> v[1], data_region |-> v[2],
      subprocessors_disclosed |-> v[3], retention_policy_stated |-> v[4],
      deletion_process |-> v[5],
      sso_supported |-> "none", mfa_available |-> "no",
      rbac_available |-> "no", encryption_transit |-> "no",
      encryption_rest |-> "no", audit_logs_available |-> "no",
      third_party_sharing |-> "yes", used_for_advertising |-> "yes",
      used_for_ai_training |-> "yes", data_sold |-> v[6],
      integration_types |-> t, integration_method |-> "api_key",
      integration_frequency |-> "realtime", sis_writeback |-> "yes"] :
        d \in HighRiskDataTypes,
        t \in {<<>>, high_risk_answers.integration_types},
        v \in StorageLocation \X DataRegion \X YesNoUnknown \X YesNoUnknown
              \X DeletionProcess \X YesNoUnknown}

InitHighRisk == InitWith(Caller, HighRiskInputs)
SpecHighRisk == InitHighRisk /\ [][Next]_vars

----------------------------------------------------------------------------
(* Concurrent callers: every caller runs calculate_risk_score on its own
   answers, statements interleaved, and calls again after it returned *)

Callers == 1..NumCallers

\* a list with a repeated and an unrecognized key
repeated_answers ==
    [minimal_answers EXCEPT
        !.data_types = <<"health", UnrecognizedDataType, "health">>,
        !.integration_types = <<"sis", "sis", "lms">>]

ConcurrentInputs ==
    {minimal_answers, low_risk_answers, high_risk_answers, unknown_data_answers,
     repeated_answers}

\* a caller that has its result calls calculate_risk_score again
Invoke(c) ==
    /\ pc[c] = "done"
    /\ \E a \in ConcurrentInputs : answers' = [answers EXCEPT ![c] = a]
    /\ pc' = [pc EXCEPT ![c] = "sensitivity"]
    /\ locals' = [locals EXCEPT ![c] = NoLocals]
    /\ result' = [result EXCEPT ![c] = NoResult]
    /\ UNCHANGED <<DATA_TYPE_POINTS, REASON_TEMPLATES, risk_assessments>>

InitConcurrent == InitWith(Callers, ConcurrentInputs)
NextConcurrent == \E c \in Callers : Step(c) \/ Invoke(c)
SpecConcurrent == InitConcurrent /\ [][NextConcurrent]_vars

----------------------------------------------------------------------------
(* submit_assessment of app/routers/assessments.py: score the submitted
   answers and store the record *)

\* class RiskTier(str, enum.Enum): the members, and the lookup by value
RiskTierMembers ==
    {[name |-> "LOW", value |-> "Low"], [name |-> "MODERATE", value |-> "Moderate"],
     [name |-> "HIGH", value |-> "High"], [name |-> "CRITICAL", value |-> "Critical"]}
RiskTier(value) == CHOOSE m \in RiskTierMembers : m.value = value

\* answers.model_dump(): the dict of the fields
model_dump(a) == [f \in DOMAIN a |-> a[f]]

\* mutant: the five first reason codes, as top_reason_codes takes them
reason_codes_to_json_top5(reason_codes) ==
    [i \in 1..min(Len(reason_codes), 5) |->
        [code |-> reason_codes[i].code,
         explanation |-> reason_codes[i].explanation,
         category |-> reason_codes[i].category,
         points |-> reason_codes[i].points]]

\* one dict per reason code, in list order
reason_codes_to_json(reason_codes) ==
    [i \in 1..Len(reason_codes) |->
        [code |-> reason_codes[i].code,
         explanation |-> reason_codes[i].explanation,
         category |-> reason_codes[i].category,
         points |-> reason_codes[i].points]]

\* the RiskAssessment(...) row built from the answers and their score_result
RiskAssessment(a, score_result) ==
    [answers_json |-> model_dump(a),
     score_total |-> score_result.total,
     score_breakdown_json |-> score_result.breakdown,
     reason_codes_json |-> reason_codes_to_json(score_result.reason_codes),
     risk_tier |-> RiskTier(score_result.risk_tier)]

\* the answer sets a form is submitted with
SubmittedAnswers == Fixtures \cup {repeated_answers}

\* the handler: no session redirects to the login, an unknown system is a
\* 404, otherwise the answers are scored and the row is added
submit_assessment(c) ==
    \E user \in BOOLEAN, system \in BOOLEAN, a \in SubmittedAnswers :
        IF ~user \/ ~system THEN UNCHANGED vars
        ELSE LET score_result == calculate_risk_score(a)
             IN  /\ Len(risk_assessments) < MaxAssessments
                 /\ answers' = [answers EXCEPT ![c] = a]
                 /\ locals' = [locals EXCEPT ![c] =
                                 [sens |-> calculate_sensitivity_score(a),
                                  expo |-> calculate_exposure_score(a),
                                  sec |-> calculate_security_score(a),
                                  post |-> calculate_posture_score(a),
                                  int |-> calculate_integration_score(a)]]
                 /\ result' = [result EXCEPT ![c] = score_result]
                 /\ pc' = [pc EXCEPT ![c] = "done"]
                 /\ risk_assessments' =
                      Append(risk_assessments, RiskAssessment(a, score_result))
                 /\ UNCHANGED <<DATA_TYPE_POINTS, REASON_TEMPLATES>>

InitSubmit == InitWith(Caller, {AssessmentAnswers})
NextSubmit == \E c \in Caller : submit_assessment(c)
SpecSubmit == InitSubmit /\ [][NextSubmit]_vars

----------------------------------------------------------------------------
(* The two tier mappings, RiskTier.from_score and determine_risk_tier, applied
   to one score *)

\* mutant: exclusive upper bounds (< for <=)
from_score_exclusive(score) ==
    IF score < 25 THEN CHOOSE m \in RiskTierMembers : m.name = "LOW"
    ELSE IF score < 50 THEN CHOOSE m \in RiskTierMembers : m.name = "MODERATE"
    ELSE IF score < 75 THEN CHOOSE m \in RiskTierMembers : m.name = "HIGH"
    ELSE CHOOSE m \in RiskTierMembers : m.name = "CRITICAL"

\* RiskTier.from_score
from_score(score) ==
    IF score <= 25 THEN CHOOSE m \in RiskTierMembers : m.name = "LOW"
    ELSE IF score <= 50 THEN CHOOSE m \in RiskTierMembers : m.name = "MODERATE"
    ELSE IF score <= 75 THEN CHOOSE m \in RiskTierMembers : m.name = "HIGH"
    ELSE CHOOSE m \in RiskTierMembers : m.name = "CRITICAL"

\* the integer scores tried, the range 0..100 of a total and beyond
Scores == (0 - MaxBeyond)..(100 + MaxBeyond)

\* determine_risk_tier gives the tier of the score; from_score gives the
\* tier of a row that holds the score as its score_total
Tiers(c) ==
    /\ pc[c] = "tier"
    /\ result' = [result EXCEPT ![c].risk_tier = determine_risk_tier(result[c].total)]
    /\ risk_assessments' =
         <<[score_total |-> result[c].total, risk_tier |-> from_score(result[c].total)]>>
    /\ pc' = [pc EXCEPT ![c] = "done"]
    /\ UNCHANGED <<answers, locals, DATA_TYPE_POINTS, REASON_TEMPLATES>>

InitTiers ==
    /\ answers = [c \in Caller |-> AssessmentAnswers]
    /\ pc = [c \in Caller |-> "tier"]
    /\ locals = [c \in Caller |-> NoLocals]
    /\ \E score \in Scores : result = [c \in Caller |-> [NoResult EXCEPT !.total = score]]
    /\ DATA_TYPE_POINTS = DATA_TYPE_POINTS_0
    /\ REASON_TEMPLATES = REASON_TEMPLATES_0
    /\ risk_assessments = <<>>
NextTiers == \E c \in Caller : Tiers(c)
SpecTiers == InitTiers /\ [][NextTiers]_vars

----------------------------------------------------------------------------
(* Low-risk answer sets: the fields the low-risk scenario fixes, every value of
   the others *)

LowRiskInputs ==
    {[low_risk_answers EXCEPT
        !.data_types = d, !.integration_types = t,
        !.sso_supported = v[1], !.storage_location = v[2],
        !.integration_method = v[3], !.integration_frequency = v[4]] :
        d \in {ListOf(S) : S \in SUBSET LowSensitivity},
        t \in {f.integration_types : f \in Fixtures},
        v \in {"entra", "google", "other"} \X {"vendor_cloud", "district"}
              \X {"oauth", "csv_manual"} \X {"nightly", "adhoc"}}

InitLowRisk == InitWith(Caller, LowRiskInputs)
SpecLowRisk == InitLowRisk /\ [][Next]_vars

----------------------------------------------------------------------------
(* Properties *)

Returned(c) == pc[c] = "done"

\* the reason codes the five scorers emitted for caller c, in the order the
\* scorers ran
Emitted(c) ==
    locals[c].sens.reasons \o locals[c].expo.reasons \o locals[c].sec.reasons
    \o locals[c].post.reasons \o locals[c].int.reasons

\* C1: every returned ScoreResult has 0 <= total <= 100 and each breakdown
\* entry within its category's range: sensitivity 0..30, exposure 0..25,
\* security_controls 0..20, vendor_posture 0..15, integration_blast_radius 0..10.
C1_ScoreBounds ==
    \A c \in DOMAIN pc : Returned(c) =>
        /\ result[c].total \in 0..100
        /\ result[c].breakdown.sensitivity \in 0..30
        /\ result[c].breakdown.exposure \in 0..25
        /\ result[c].breakdown.security_controls \in 0..20
        /\ result[c].breakdown.vendor_posture \in 0..15
        /\ result[c].breakdown.integration_blast_radius \in 0..10

\* a result whose sensitivity, exposure, security and integration entries sit
\* at their caps, from data types whose raw sum is above 30
C1_Witness ==
    \E c \in DOMAIN pc :
        /\ Returned(c)
        /\ answers[c] = maximal_answers
        /\ result[c].breakdown.sensitivity = 30
        /\ result[c].breakdown.exposure = 25
        /\ result[c].breakdown.security_controls = 20
        /\ result[c].breakdown.integration_blast_radius = 10

TierRank(tier) ==
    CASE tier = "Low" -> 1 [] tier = "Moderate" -> 2 [] tier = "High" -> 3
      [] tier = "Critical" -> 4

\* C2: the tier of every returned ScoreResult follows the inclusive-upper-bound
\* bands of its total (<= 25 Low, 26..50 Moderate, 51..75 High, 76..100
\* Critical), equals determine_risk_tier(total), and no smaller total gets a
\* higher tier nor a larger total a lower one.
C2_TierBands ==
    \A c \in DOMAIN pc : Returned(c) =>
        LET total == result[c].total
            tier == result[c].risk_tier
        IN  /\ total <= 25 => tier = "Low"
            /\ total \in 26..50 => tier = "Moderate"
            /\ total \in 51..75 => tier = "High"
            /\ total \in 76..100 => tier = "Critical"
            /\ tier = determine_risk_tier(total)
            /\ \A s \in 0..100 :
                /\ s <= total => TierRank(determine_risk_tier(s)) <= TierRank(tier)
                /\ s >= total => TierRank(determine_risk_tier(s)) >= TierRank(tier)

\* a result exactly on the upper bound of a band
C2_Witness ==
    \E c \in DOMAIN pc :
        /\ Returned(c)
        /\ result[c].total = 50
        /\ result[c].risk_tier = "Moderate"

CategoryRank(category) ==
    CASE category = "sensitivity" -> 1 [] category = "exposure" -> 2
      [] category = "security" -> 3 [] category = "posture" -> 4
      [] category = "integration" -> 5

\* C3: the reason codes of every returned ScoreResult are non-increasing in
\* points, are exactly the emitted ones, and those with equal points stand in
\* the order they were emitted: by category in the order the scorers ran, and
\* within one scorer in its emission order.
C3_SortedStable ==
    \A c \in DOMAIN pc : Returned(c) =>
        LET codes == result[c].reason_codes
            emitted == Emitted(c)
            WithPoints(seq, p) == SelectSeq(seq, LAMBDA r : r.points = p)
        IN  /\ Len(codes) = Len(emitted)
            /\ \A i \in 1..(Len(codes) - 1) : codes[i].points >= codes[i + 1].points
            /\ \A p \in {r.points : r \in Range(codes) \cup Range(emitted)} :
                WithPoints(codes, p) = WithPoints(emitted, p)
            /\ \A i, j \in 1..Len(codes) :
                (i < j /\ codes[i].points = codes[j].points) =>
                    CategoryRank(codes[i].category) <= CategoryRank(codes[j].category)

\* a result with a tie between categories, a tie within one scorer, and an
\* entry that the sort moved ahead of an earlier-emitted one
C3_Witness ==
    \E c \in DOMAIN pc :
        /\ Returned(c)
        /\ result[c].reason_codes # Emitted(c)
        /\ \E i, j \in 1..Len(result[c].reason_codes) :
            /\ i < j
            /\ result[c].reason_codes[i].points = result[c].reason_codes[j].points
            /\ result[c].reason_codes[i].category # result[c].reason_codes[j].category
        /\ \E i, j \in 1..Len(result[c].reason_codes) :
            /\ i < j
            /\ result[c].reason_codes[i].points = result[c].reason_codes[j].points
            /\ result[c].reason_codes[i].category = result[c].reason_codes[j].category
            /\ result[c].reason_codes[i].code # result[c].reason_codes[j].code

\* C4: with data_types_unknown true the sensitivity scorer returns score 10 and
\* the single reason code SENS-UNK with 10 points, whatever data_types holds,
\* so the result does not depend on data_types.
C4_UnknownOverride ==
    \A c \in DOMAIN pc :
        (answers[c].data_types_unknown /\ pc[c] # "sensitivity") =>
            /\ locals[c].sens.score = 10
            /\ Len(locals[c].sens.reasons) = 1
            /\ locals[c].sens.reasons[1].code = "SENS-UNK"
            /\ locals[c].sens.reasons[1].points = 10
            /\ locals[c].sens =
                 calculate_sensitivity_score([answers[c] EXCEPT !.data_types = <<>>])
            /\ Returned(c) => result[c].breakdown.sensitivity = 10

\* the flag set together with high-sensitivity data types, the scorer having run
C4_Witness ==
    \E c \in DOMAIN pc :
        /\ answers[c].data_types_unknown
        /\ \E i \in 1..Len(answers[c].data_types) : answers[c].data_types[i] = "iep_504"
        /\ pc[c] = "exposure"
        /\ locals[c].sens.score = 10

\* C5: the answer set with every field at its default scores total > 0 with
\* tier Moderate or High.
C5_DefaultsScore ==
    \A c \in DOMAIN pc : (Returned(c) /\ answers[c] = AssessmentAnswers) =>
        /\ result[c].total > 0
        /\ result[c].risk_tier \in {"Moderate", "High"}

\* the default answer set scored
C5_Witness ==
    \E c \in DOMAIN pc :
        /\ Returned(c)
        /\ answers[c] = AssessmentAnswers
        /\ \A f \in EnumFields : answers[c][f] = "unknown"
        /\ result[c].total = 56

\* the five (score, reasons) pairs of answer set a
CategoryResults(a) ==
    [sens |-> calculate_sensitivity_score(a), expo |-> calculate_exposure_score(a),
     sec |-> calculate_security_score(a), post |-> calculate_posture_score(a),
     int |-> calculate_integration_score(a)]

\* for every enumerated field a value of its vocabulary that no scorer penalizes
Benign == low_risk_answers

\* the fields a scorer compares with "yes" alone
ConfirmedOnly ==
    {"mfa_available", "rbac_available", "encryption_transit", "encryption_rest",
     "audit_logs_available", "retention_policy_stated"}

\* C6 as stated: for every enumerated field, a value outside the field's
\* vocabulary is scored as benign: every category's sub-score and reason codes
\* are those of the same answers with a benign value in that field.
C6_UnrecognizedBenign ==
    \A c \in DOMAIN pc : Returned(c) =>
        \A f \in EnumFields : answers[c][f] \notin Vocabulary[f] =>
            locals[c] = CategoryResults([answers[c] EXCEPT ![f] = Benign[f]])

\* C6 amended: a value outside the vocabulary never keeps scoring from
\* returning a result; it is scored as benign in every field but the six that
\* are compared with "yes" alone (mfa_available, rbac_available,
\* encryption_transit, encryption_rest, audit_logs_available,
\* retention_policy_stated), where it is scored as "no" is: the full penalty
\* and its reason code.  With every other field benign, the benign-scored
\* fields leave exposure, security and posture at 0 with no reason code.
C6_UnrecognizedValues ==
    \A c \in DOMAIN pc : Returned(c) =>
        /\ result[c].total \in 0..100
        /\ result[c].risk_tier \in {"Low", "Moderate", "High", "Critical"}
        /\ \A f \in EnumFields : answers[c][f] \notin Vocabulary[f] =>
            locals[c] = CategoryResults(
                [answers[c] EXCEPT ![f] = IF f \in ConfirmedOnly THEN "no" ELSE Benign[f]])
        /\ (\A f \in EnumFields :
                \/ answers[c][f] = Benign[f]
                \/ answers[c][f] \notin Vocabulary[f] /\ f \notin ConfirmedOnly) =>
            /\ locals[c].expo = ScoreAndReasons(0, <<>>)
            /\ locals[c].sec = ScoreAndReasons(0, <<>>)
            /\ locals[c].post = ScoreAndReasons(0, <<>>)
            /\ locals[c].int = integration_multi(answers[c].integration_types)

\* an answer set scored with an unrecognized value in a field scored as benign
\* and in a field compared with "yes" alone
C6_Witness ==
    \E c \in DOMAIN pc :
        /\ Returned(c)
        /\ answers[c].third_party_sharing \notin YesNoUnknown
        /\ answers[c].mfa_available \notin YesNoUnknown
        /\ \E i \in 1..Len(result[c].reason_codes) :
            result[c].reason_codes[i].code = "CTRL-NOMFA"

StatementOrder ==
    <<"sensitivity", "exposure", "security", "posture", "integration", "combine", "done">>
Position(label) == CHOOSE i \in DOMAIN StatementOrder : StatementOrder[i] = label
Past(c, label) == Position(pc[c]) > Position(label)

\* C7: with any number of calls running at once, statements interleaved in any
\* order, every local a call holds and the result it returns are those of a
\* lone sequential call on its own answers.
C7_Isolation ==
    \A c \in DOMAIN pc :
        /\ Past(c, "sensitivity") => locals[c].sens = calculate_sensitivity_score(answers[c])
        /\ Past(c, "exposure") => locals[c].expo = calculate_exposure_score(answers[c])
        /\ Past(c, "security") => locals[c].sec = calculate_security_score(answers[c])
        /\ Past(c, "posture") => locals[c].post = calculate_posture_score(answers[c])
        /\ Past(c, "integration") => locals[c].int = calculate_integration_score(answers[c])
        /\ Returned(c) => result[c] = calculate_risk_score(answers[c])

\* a call that returned while another call, on answers with another result,
\* is between two scorers
C7_Witness ==
    \E c, d \in DOMAIN pc :
        /\ c # d
        /\ Returned(c)
        /\ pc[d] = "security"
        /\ answers[c] = high_risk_answers
        /\ answers[d] = low_risk_answers
        /\ result[c].total = 97

\* C8: no statement of a running call changes the answers it was passed, and
\* no step at all changes DATA_TYPE_POINTS or REASON_TEMPLATES, which stay as
\* loaded.
C8_Frame ==
    [][/\ \A c \in DOMAIN pc : pc[c] # "done" => answers'[c] = answers[c]
       /\ DATA_TYPE_POINTS' = DATA_TYPE_POINTS
       /\ REASON_TEMPLATES' = REASON_TEMPLATES
       /\ DATA_TYPE_POINTS' = DATA_TYPE_POINTS_0
       /\ REASON_TEMPLATES' = REASON_TEMPLATES_0]_vars

\* every call returned, one of them on a list with a repeated entry and a key
\* the table does not hold, the list and the tables as before
C8_Witness ==
    /\ \A c \in DOMAIN pc : Returned(c)
    /\ \E c \in DOMAIN pc :
        /\ answers[c] = repeated_answers
        /\ answers[c].data_types = <<"health", UnrecognizedDataType, "health">>
        /\ result[c].breakdown.sensitivity = 16
    /\ UnrecognizedDataType \notin DOMAIN DATA_TYPE_POINTS

\* the high-risk scenario: at least two high-sensitivity data types, every
\* security control absent, sharing, advertising and AI training "yes", a
\* real-time API-key integration with SIS writeback
HighRiskScenario(a) ==
    /\ ~a.data_types_unknown
    /\ Cardinality(Range(a.data_types) \cap HighSensitivity) >= 2
    /\ a.sso_supported = "none"
    /\ a.mfa_available = "no" /\ a.rbac_available = "no"
    /\ a.encryption_transit = "no" /\ a.encryption_rest = "no"
    /\ a.audit_logs_available = "no"
    /\ a.third_party_sharing = "yes" /\ a.used_for_advertising = "yes"
    /\ a.used_for_ai_training = "yes"
    /\ a.integration_method = "api_key" /\ a.integration_frequency = "realtime"
    /\ a.sis_writeback = "yes"

\* C9: every answer set of the high-risk scenario scores total > 50 with tier
\* High or Critical, whatever its other fields hold.
C9_HighRisk ==
    \A c \in DOMAIN pc : (Returned(c) /\ HighRiskScenario(answers[c])) =>
        /\ result[c].total > 50
        /\ result[c].risk_tier \in {"High", "Critical"}

\* the lowest-scoring answer set of the scenario: the two lightest
\* high-sensitivity types and every other field benign
C9_Witness ==
    \E c \in DOMAIN pc :
        /\ Returned(c)
        /\ HighRiskScenario(answers[c])
        /\ answers[c].deletion_process = "self_serve"
        /\ answers[c].retention_policy_stated = "yes"
        /\ result[c].total = 57
        /\ result[c].risk_tier = "High"

\* the low-risk scenario: every control present, no sharing or secondary use,
\* subprocessors disclosed, retention stated, self-serve deletion, US-only
\* region, one storage location, an unpenalized integration, and only
\* low-sensitivity data types, each at most once
LowRiskScenario(a) ==
    /\ ~a.data_types_unknown
    /\ Range(a.data_types) \subseteq LowSensitivity
    /\ Cardinality(Range(a.data_types)) = Len(a.data_types)
    /\ a.sso_supported \in SSOOption \ {"none", "unknown"}
    /\ a.mfa_available = "yes" /\ a.rbac_available = "yes"
    /\ a.encryption_transit = "yes" /\ a.encryption_rest = "yes"
    /\ a.audit_logs_available = "yes"
    /\ a.third_party_sharing = "no" /\ a.used_for_advertising = "no"
    /\ a.used_for_ai_training = "no" /\ a.data_sold = "no"
    /\ a.subprocessors_disclosed = "yes" /\ a.retention_policy_stated = "yes"
    /\ a.deletion_process = "self_serve"
    /\ a.data_region = "us_only"
    /\ a.storage_location \in StorageLocation \ {"both", "unknown"}
    /\ a.integration_method \in IntegrationMethod \ {"api_key", "unknown"}
    /\ a.integration_frequency \in IntegrationFrequency \ {"realtime", "unknown"}
    /\ a.sis_writeback = "no"

\* C10: every answer set of the low-risk scenario scores total <= 25 with tier
\* Low.
C10_LowRisk ==
    \A c \in DOMAIN pc : (Returned(c) /\ LowRiskScenario(answers[c])) =>
        /\ result[c].total <= 25
        /\ result[c].risk_tier = "Low"

\* the highest-scoring answer set of the scenario: all four low-sensitivity
\* types and three or more integration types
C10_Witness ==
    \E c \in DOMAIN pc :
        /\ Returned(c)
        /\ LowRiskScenario(answers[c])
        /\ Len(answers[c].data_types) = 4
        /\ Len(answers[c].integration_types) >= 3
        /\ result[c].total = 8

----------------------------------------------------------------------------
(* Properties of the sensitivity scorer *)

\* the sum of the table values of the entries of a list, an entry the table
\* does not hold counting 0
RECURSIVE TablePoints(_)
TablePoints(data_types) ==
    IF data_types = <<>> THEN 0
    ELSE (IF Head(data_types) \in DOMAIN DATA_TYPE_POINTS_0
          THEN DATA_TYPE_POINTS_0[Head(data_types)] ELSE 0)
         + TablePoints(Tail(data_types))

\* C11: with data_types_unknown false the sensitivity sub-score is
\* min(30, sum of the table values of the entries of data_types), a key the
\* table does not hold counting 0: <<iep_504, health, directory_info>> gives
\* 18, the empty list 0, the six high-sensitivity types 30 (raw sum 44).
C11_SensitivitySum ==
    \A c \in DOMAIN pc :
        (~answers[c].data_types_unknown /\ Past(c, "sensitivity")) =>
            LET raw == TablePoints(answers[c].data_types)
                score == locals[c].sens.score
            IN  /\ score = IF raw <= 30 THEN raw ELSE 30
                /\ answers[c].data_types = mixed_sensitivity_data => score = 18
                /\ answers[c].data_types = <<>> => score = 0
                /\ answers[c].data_types = ListOf(HighSensitivity) => raw = 44 /\ score = 30
                /\ Range(answers[c].data_types) = {UnrecognizedDataType} => score = 0
                /\ Returned(c) => result[c].breakdown.sensitivity = score

\* the six high-sensitivity types scored: the cap cut the raw sum
C11_Witness ==
    \E c \in DOMAIN pc :
        /\ ~answers[c].data_types_unknown
        /\ answers[c].data_types = ListOf(HighSensitivity)
        /\ Past(c, "sensitivity")
        /\ locals[c].sens.score = 30

\* the reason code the claim names for a data type
SensitivityCode ==
    [iep_504 |-> "SENS-IEP", health |-> "SENS-HEALTH",
     behavioral_sel |-> "SENS-BEHAV", biometrics |-> "SENS-BIO",
     precise_location |-> "SENS-LOC", discipline |-> "SENS-DISC",
     attendance_discipline |-> "SENS-DISC",
     photos_video_audio |-> "SENS-MEDIA"]

\* the entries of a list that the claim says emit a reason code
Flagged(data_types) == SelectSeq(data_types, LAMBDA k : k \in DOMAIN SensitivityCode)

\* C12: with data_types_unknown false the sensitivity scorer emits a reason
\* code for an entry of data_types iff the entry is iep_504, health,
\* behavioral_sel, biometrics, precise_location, discipline or
\* attendance_discipline (both SENS-DISC) or photos_video_audio, with the
\* type's table value as points; low-sensitivity types and unrecognized keys
\* emit none although low-sensitivity types add points
\* (<<directory_info, auth_identifiers>>: sub-score 3, no reason code).
C12_SensitivityCodes ==
    \A c \in DOMAIN pc :
        (~answers[c].data_types_unknown /\ Past(c, "sensitivity")) =>
            LET flagged == Flagged(answers[c].data_types)
                reasons == locals[c].sens.reasons
            IN  /\ Len(reasons) = Len(flagged)
                /\ \A i \in 1..Len(reasons) :
                      /\ reasons[i].code = SensitivityCode[flagged[i]]
                      /\ reasons[i].points = DATA_TYPE_POINTS_0[flagged[i]]
                      /\ reasons[i].category = "sensitivity"
                /\ Range(answers[c].data_types)
                       \subseteq LowSensitivity \cup {UnrecognizedDataType}
                     => reasons = <<>>
                /\ answers[c].data_types = <<"directory_info", "auth_identifiers">>
                     => locals[c].sens = ScoreAndReasons(3, <<>>)

\* a low-sensitivity type that adds points without a code, next to
\* attendance_discipline, which emits SENS-DISC with its own 3 points
C12_Witness ==
    \E c \in DOMAIN pc :
        /\ ~answers[c].data_types_unknown
        /\ answers[c].data_types = <<"directory_info", "attendance_discipline">>
        /\ Past(c, "sensitivity")
        /\ locals[c].sens.score = 5
        /\ Len(locals[c].sens.reasons) = 1
        /\ locals[c].sens.reasons[1].code = "SENS-DISC"
        /\ locals[c].sens.reasons[1].points = 3

\* a list with every key kept at its first occurrence only
RECURSIVE Once(_)
Once(data_types) ==
    IF data_types = <<>> THEN <<>>
    ELSE LET front == Once(SubSeq(data_types, 1, Len(data_types) - 1))
             last == data_types[Len(data_types)]
         IN  IF last \in Range(front) THEN front ELSE Append(front, last)

\* C13: the sensitivity scorer emits at most one reason code for a data-type
\* key however many times the key occurs in data_types, and a list with a
\* key repeated gives the same sensitivity result as the list with the key
\* once.
C13_OncePerKey ==
    \A c \in DOMAIN pc :
        (~answers[c].data_types_unknown /\ Past(c, "sensitivity")) =>
            /\ \A k \in Range(answers[c].data_types) :
                  Cardinality({i \in 1..Len(locals[c].sens.reasons) :
                                  locals[c].sens.reasons[i].code
                                      = get(SensitivityCode, k, "")}) <= 1
            /\ locals[c].sens
                 = calculate_sensitivity_score(
                       [answers[c] EXCEPT !.data_types = Once(answers[c].data_types)])

----------------------------------------------------------------------------
(* Properties of the combiner *)

\* C14: in every ScoreResult the breakdown has exactly the five keys
\* sensitivity, exposure, security_controls, vendor_posture and
\* integration_blast_radius, each the sub-score of its scorer, and total is
\* the sum of the five values: the clamp to 100 never changes the sum.
C14_BreakdownSum ==
    \A c \in DOMAIN pc :
        Returned(c) =>
            LET b == result[c].breakdown
                sum == b.sensitivity + b.exposure + b.security_controls
                         + b.vendor_posture + b.integration_blast_radius
            IN  /\ DOMAIN b = {"sensitivity", "exposure", "security_controls",
                               "vendor_posture", "integration_blast_radius"}
                /\ b.sensitivity = locals[c].sens.score
                /\ b.exposure = locals[c].expo.score
                /\ b.security_controls = locals[c].sec.score
                /\ b.vendor_posture = locals[c].post.score
                /\ b.integration_blast_radius = locals[c].int.score
                /\ sum <= 100
                /\ result[c].total = sum

\* the largest result: every scorer at its largest sub-score
C14_Witness ==
    \E c \in DOMAIN pc :
        /\ Returned(c)
        /\ result[c].breakdown = [sensitivity |-> 30, exposure |-> 25,
                                  security_controls |-> 20, vendor_posture |-> 12,
                                  integration_blast_radius |-> 10]
        /\ result[c].total = 97

----------------------------------------------------------------------------
(* Properties of the exposure scorer *)

\* the exposure fields in the order the scorer reads them
ExposureOrder ==
    <<"third_party_sharing", "used_for_advertising", "used_for_ai_training",
      "data_sold", "subprocessors_disclosed", "data_region", "storage_location">>
ExposureFields == Range(ExposureOrder)

\* the penalized answer of each exposure field, its weight, the weight of
\* "unknown" and the reason code, as the claims list them
ExposureWeights ==
    [third_party_sharing     |-> [penalized |-> "yes",    points |-> 6, unknown |-> 4, code |-> "EXPO-SHARE"],
     used_for_advertising    |-> [penalized |-> "yes",    points |-> 5, unknown |-> 3, code |-> "EXPO-ADS"],
     used_for_ai_training    |-> [penalized |-> "yes",    points |-> 4, unknown |-> 2, code |-> "EXPO-AI"],
     data_sold               |-> [penalized |-> "yes",    points |-> 6, unknown |-> 4, code |-> "EXPO-SOLD"],
     subprocessors_disclosed |-> [penalized |-> "no",     points |-> 4, unknown |-> 3, code |-> "EXPO-SUBP"],
     data_region             |-> [penalized |-> "global", points |-> 3, unknown |-> 2, code |-> "EXPO-GLOBAL"],
     storage_location        |-> [penalized |-> "both",   points |-> 2, unknown |-> 2, code |-> "EXPO-BOTH"]]

\* the contribution of one exposure field of an answer set
ExposureContribution(a, f) ==
    IF a[f] = ExposureWeights[f].penalized THEN ExposureWeights[f].points
    ELSE IF a[f] = "unknown" THEN ExposureWeights[f].unknown
    ELSE 0

RECURSIVE ExposureSum(_, _)
ExposureSum(a, i) ==
    IF i > Len(ExposureOrder) THEN 0
    ELSE ExposureContribution(a, ExposureOrder[i]) + ExposureSum(a, i + 1)

\* C15: the exposure sub-score is min(25, sum of the seven fields'
\* contributions), with sharing yes 6 / unknown 4, advertising yes 5 /
\* unknown 3, AI training yes 4 / unknown 2, sold yes 6 / unknown 4,
\* subprocessors no 4 / unknown 3, region global 3 / unknown 2, storage both
\* 2 / unknown 2 and every other value 0; all seven penalized give 25 (raw
\* 30), all seven benign give 0 with no reason codes.
C15_ExposureSum ==
    \A c \in DOMAIN pc :
        Past(c, "exposure") =>
            LET raw == ExposureSum(answers[c], 1)
                expo == locals[c].expo
            IN  /\ expo.score = IF raw <= 25 THEN raw ELSE 25
                /\ (\A f \in ExposureFields : answers[c][f] = ExposureWeights[f].penalized)
                     => raw = 30 /\ expo.score = 25
                /\ (\A f \in ExposureFields : answers[c][f] = Benign[f])
                     => expo = ScoreAndReasons(0, <<>>)
                /\ Returned(c) => result[c].breakdown.exposure = expo.score

\* all seven fields at their penalized value: the cap cut the raw 30
C15_Witness ==
    \E c \in DOMAIN pc :
        /\ \A f \in ExposureFields : answers[c][f] = ExposureWeights[f].penalized
        /\ Past(c, "exposure")
        /\ locals[c].expo.score = 25
        /\ Len(locals[c].expo.reasons) = 7

\* the exposure fields of an answer set that the claim says emit a reason
\* code, in the scorer's order
ExposureEmitting(a) ==
    SelectSeq(ExposureOrder,
              LAMBDA f : \/ a[f] = ExposureWeights[f].penalized
                         \/ f = "subprocessors_disclosed" /\ a[f] = "unknown")

\* C16: in the exposure scorer "unknown" emits a reason code for
\* subprocessors_disclosed only (EXPO-SUBP with 3 points, the code of "no",
\* which carries 4); "unknown" in any of the other six fields adds its
\* points and emits no code; each penalized answer emits exactly one reason
\* code whose points equal its weight.
C16_ExposureCodes ==
    \A c \in DOMAIN pc :
        Past(c, "exposure") =>
            LET emitting == ExposureEmitting(answers[c])
                reasons == locals[c].expo.reasons
            IN  /\ Len(reasons) = Len(emitting)
                /\ \A i \in 1..Len(reasons) :
                      /\ reasons[i].code = ExposureWeights[emitting[i]].code
                      /\ reasons[i].points = ExposureContribution(answers[c], emitting[i])
                      /\ reasons[i].category = "exposure"
                /\ \A f \in ExposureFields \ {"subprocessors_disclosed"} :
                      answers[c][f] = "unknown" =>
                          \A i \in 1..Len(reasons) : reasons[i].code # ExposureWeights[f].code
                /\ answers[c].subprocessors_disclosed = "unknown" =>
                      \E i \in 1..Len(reasons) :
                          reasons[i].code = "EXPO-SUBP" /\ reasons[i].points = 3
                /\ answers[c].subprocessors_disclosed = "no" =>
                      \E i \in 1..Len(reasons) :
                          reasons[i].code = "EXPO-SUBP" /\ reasons[i].points = 4

\* all seven fields "unknown": 20 points and the one EXPO-SUBP code
C16_Witness ==
    \E c \in DOMAIN pc :
        /\ \A f \in ExposureFields : answers[c][f] = "unknown"
        /\ Past(c, "exposure")
        /\ locals[c].expo.score = 20
        /\ Len(locals[c].expo.reasons) = 1
        /\ locals[c].expo.reasons[1].code = "EXPO-SUBP"
        /\ locals[c].expo.reasons[1].points = 3

\* an answer set whose exposure fields other than f are benign, so that the
\* exposure sub-score is the points the answer to f adds
OnlyExposure(a, f) == \A g \in ExposureFields \ {f} : a[g] = Benign[g]

\* the exposure sub-score of an answer set with field f at its penalized answer
PenalizedExposure(a, f) ==
    calculate_exposure_score([a EXCEPT ![f] = ExposureWeights[f].penalized]).score

\* C17 as stated: for every one of the seven exposure fields the points
\* "unknown" adds are greater than 0 and strictly smaller than the points
\* the field's penalized answer adds.
C17_UnknownSmaller ==
    \A c \in DOMAIN pc :
        Past(c, "exposure") =>
            \A f \in ExposureFields :
                (answers[c][f] = "unknown" /\ OnlyExposure(answers[c], f)) =>
                    /\ locals[c].expo.score > 0
                    /\ locals[c].expo.score < PenalizedExposure(answers[c], f)

\* C17 amended: for the six exposure fields other than storage_location the
\* points "unknown" adds are greater than 0 and strictly smaller than the
\* points the field's penalized answer adds; for storage_location "unknown"
\* adds 2, the same points as "both".
C17_UnknownNotLarger ==
    \A c \in DOMAIN pc :
        Past(c, "exposure") =>
            \A f \in ExposureFields :
                (answers[c][f] = "unknown" /\ OnlyExposure(answers[c], f)) =>
                    /\ locals[c].expo.score > 0
                    /\ f # "storage_location" =>
                          locals[c].expo.score < PenalizedExposure(answers[c], f)
                    /\ f = "storage_location" =>
                          /\ locals[c].expo.score = 2
                          /\ PenalizedExposure(answers[c], f) = 2

\* storage_location "unknown" alone scored: the 2 points of "both"
C17_Witness ==
    \E c \in DOMAIN pc :
        /\ answers[c].storage_location = "unknown"
        /\ OnlyExposure(answers[c], "storage_location")
        /\ Past(c, "exposure")
        /\ locals[c].expo.score = 2
        /\ locals[c].expo.reasons = <<>>

----------------------------------------------------------------------------
(* Properties of the security, posture and integration scorers *)

\* the security controls in the order the scorer reads them, with the
\* penalty and the reason code of each as the claim lists them
SecurityOrder ==
    <<"sso_supported", "mfa_available", "rbac_available",
      "encryption_transit", "encryption_rest", "audit_logs_available">>
SecurityControls == Range(SecurityOrder) \ {"sso_supported"}
SecurityWeights ==
    [sso_supported        |-> [points |-> 4, code |-> "CTRL-NOSSO"],
     mfa_available        |-> [points |-> 4, code |-> "CTRL-NOMFA"],
     rbac_available       |-> [points |-> 3, code |-> "CTRL-NORBAC"],
     encryption_transit   |-> [points |-> 3, code |-> "CTRL-NOTRANS"],
     encryption_rest      |-> [points |-> 3, code |-> "CTRL-NOREST"],
     audit_logs_available |-> [points |-> 3, code |-> "CTRL-NOAUDIT"]]

\* the claim's test for a control being penalized
SecurityPenalized(a, f) ==
    IF f = "sso_supported" THEN a[f] = "none" \/ a[f] = "unknown" ELSE a[f] # "yes"

RECURSIVE SecuritySum(_, _)
SecuritySum(a, i) ==
    IF i > Len(SecurityOrder) THEN 0
    ELSE (IF SecurityPenalized(a, SecurityOrder[i])
          THEN SecurityWeights[SecurityOrder[i]].points ELSE 0)
         + SecuritySum(a, i + 1)

\* the other one of the answers "no" and "unknown"
NoForUnknown(value) == IF value = "no" THEN "unknown" ELSE "no"

\* C18: the security sub-score is 4 if sso_supported is "none" or "unknown",
\* plus 4 if mfa_available is not "yes", plus 3 for each of rbac_available,
\* encryption_transit, encryption_rest and audit_logs_available that is not
\* "yes"; each penalized control emits exactly one reason code with its
\* penalty as points; "no" and "unknown" give the same result for the five
\* yes/no controls; SSO supported and all five controls "yes" give 0 and no
\* reason codes.
C18_SecuritySum ==
    \A c \in DOMAIN pc :
        Past(c, "security") =>
            LET a == answers[c]
                penalized == SelectSeq(SecurityOrder, LAMBDA f : SecurityPenalized(a, f))
                sec == locals[c].sec
            IN  /\ sec.score = SecuritySum(a, 1)
                /\ Len(sec.reasons) = Len(penalized)
                /\ \A i \in 1..Len(penalized) :
                      /\ sec.reasons[i].code = SecurityWeights[penalized[i]].code
                      /\ sec.reasons[i].points = SecurityWeights[penalized[i]].points
                      /\ sec.reasons[i].category = "security"
                /\ \A f \in SecurityControls :
                      a[f] \in {"no", "unknown"} =>
                          sec = calculate_security_score([a EXCEPT ![f] = NoForUnknown(a[f])])
                /\ (a.sso_supported \in {"entra", "google", "other"}
                      /\ \A f \in SecurityControls : a[f] = "yes")
                     => sec = ScoreAndReasons(0, <<>>)

\* SSO unknown, MFA "no", RBAC "unknown", the rest present: 4 + 4 + 3
C18_Witness ==
    \E c \in DOMAIN pc :
        /\ answers[c].sso_supported = "unknown"
        /\ answers[c].mfa_available = "no"
        /\ answers[c].rbac_available = "unknown"
        /\ answers[c].encryption_transit = "yes"
        /\ answers[c].encryption_rest = "yes"
        /\ answers[c].audit_logs_available = "yes"
        /\ Past(c, "security")
        /\ locals[c].sec.score = 11
        /\ Len(locals[c].sec.reasons) = 3

\* the weight and the reason code of each deletion_process answer, as the
\* claim lists them ("" for no code)
DeletionWeights ==
    [no             |-> [points |-> 6, code |-> "POST-NODEL"],
     unknown        |-> [points |-> 5, code |-> "POST-DELUNK"],
     support_ticket |-> [points |-> 3, code |-> "POST-DELUNK"],
     self_serve     |-> [points |-> 0, code |-> ""]]

IntegrationOrder ==
    <<"integration_method", "integration_frequency", "sis_writeback", "integration_types">>
IntegrationWeights ==
    [integration_method    |-> [penalized |-> "api_key",  points |-> 3, unknown |-> 2, code |-> "INT-APIKEY"],
     integration_frequency |-> [penalized |-> "realtime", points |-> 3, unknown |-> 1, code |-> "INT-REALTIME"],
     sis_writeback         |-> [penalized |-> "yes",      points |-> 3, unknown |-> 2, code |-> "INT-SISWB"],
     integration_types     |-> [points |-> 2, code |-> "INT-MULTI"]]

\* integration_types as the set of the claim: a list with no entry repeated
IsSet(seq) == Cardinality(Range(seq)) = Len(seq)

\* the claim's test for an integration input being penalized
IntegrationPenalized(a, f) ==
    IF f = "integration_types" THEN Cardinality(Range(a[f])) >= 3
    ELSE a[f] = IntegrationWeights[f].penalized

IntegrationContribution(a, f) ==
    IF IntegrationPenalized(a, f) THEN IntegrationWeights[f].points
    ELSE IF f # "integration_types" /\ a[f] = "unknown" THEN IntegrationWeights[f].unknown
    ELSE 0

RECURSIVE IntegrationSum(_, _)
IntegrationSum(a, i) ==
    IF i > Len(IntegrationOrder) THEN 0
    ELSE IntegrationContribution(a, IntegrationOrder[i]) + IntegrationSum(a, i + 1)

\* C20: for integration_types a set, the integration sub-score is
\* min(10, method + frequency + writeback + breadth) with integration_method
\* api_key 3 (INT-APIKEY) / unknown 2 (no code), integration_frequency
\* realtime 3 (INT-REALTIME) / unknown 1 (no code), sis_writeback yes 3
\* (INT-SISWB) / unknown 2 (no code), breadth 2 (INT-MULTI) for three or
\* more integration types, every other value 0; all four penalized give 10
\* (raw 11) and all four reason codes.
C20_IntegrationSum ==
    \A c \in DOMAIN pc :
        (Past(c, "integration") /\ IsSet(answers[c].integration_types)) =>
            LET a == answers[c]
                raw == IntegrationSum(a, 1)
                penalized == SelectSeq(IntegrationOrder, LAMBDA f : IntegrationPenalized(a, f))
                int == locals[c].int
            IN  /\ int.score = IF raw <= 10 THEN raw ELSE 10
                /\ Len(int.reasons) = Len(penalized)
                /\ \A i \in 1..Len(penalized) :
                      /\ int.reasons[i].code = IntegrationWeights[penalized[i]].code
                      /\ int.reasons[i].points = IntegrationWeights[penalized[i]].points
                      /\ int.reasons[i].category = "integration"
                /\ Len(penalized) = 4 => raw = 11 /\ int.score = 10
                /\ Returned(c) => result[c].breakdown.integration_blast_radius = int.score

\* all four penalized: the cap cut the raw 11 and the four codes remain
C20_Witness ==
    \E c \in DOMAIN pc :
        /\ answers[c].integration_method = "api_key"
        /\ answers[c].integration_frequency = "realtime"
        /\ answers[c].sis_writeback = "yes"
        /\ IsSet(answers[c].integration_types)
        /\ Len(answers[c].integration_types) >= 3
        /\ Past(c, "integration")
        /\ locals[c].int.score = 10
        /\ Len(locals[c].int.reasons) = 4

\* the INT-MULTI reason codes of a reason list
MultiCodes(reasons) == SelectSeq(reasons, LAMBDA r : r.code = "INT-MULTI")

\* C21: the breadth penalty (2 points and one INT-MULTI reason code) is
\* applied iff the number of distinct entries of integration_types is 3 or
\* more: repeated occurrences of a type do not count towards the threshold,
\* and the penalty is 2 however many types there are.
C21_DistinctBreadth ==
    \A c \in DOMAIN pc :
        Past(c, "integration") =>
            LET multi == MultiCodes(locals[c].int.reasons)
            IN  IF Cardinality(Range(answers[c].integration_types)) >= 3
                THEN Len(multi) = 1 /\ multi[1].points = 2
                ELSE multi = <<>>

----------------------------------------------------------------------------
(* Properties of the reason codes *)

\* C22: the category of every reason code of a ScoreResult is a key of the
\* same result's breakdown, so that breakdown[reason.category] is the
\* sub-score of the reason code's category.
C22_CategoryKeys ==
    \A c \in DOMAIN pc :
        Returned(c) =>
            \A i \in 1..Len(result[c].reason_codes) :
                result[c].reason_codes[i].category \in DOMAIN result[c].breakdown

\* the one category under which each code of the catalog is emitted
CodeCategory ==
    [code \in DOMAIN REASON_TEMPLATES_0 |->
        IF code \in {"SENS-IEP", "SENS-HEALTH", "SENS-BEHAV", "SENS-BIO", "SENS-LOC",
                     "SENS-DISC", "SENS-MEDIA", "SENS-UNK"} THEN "sensitivity"
        ELSE IF code \in {"EXPO-SHARE", "EXPO-ADS", "EXPO-AI", "EXPO-SOLD", "EXPO-SUBP",
                          "EXPO-GLOBAL", "EXPO-BOTH"} THEN "exposure"
        ELSE IF code \in {"CTRL-NOSSO", "CTRL-NOMFA", "CTRL-NORBAC", "CTRL-NOTRANS",
                          "CTRL-NOREST", "CTRL-NOAUDIT"} THEN "security"
        ELSE IF code \in {"POST-RETUNK", "POST-DELUNK", "POST-NODEL"} THEN "posture"
        ELSE "integration"]

\* a reason code agrees with the catalog
Catalogued(r) ==
    /\ r.code \in DOMAIN REASON_TEMPLATES_0
    /\ r.explanation = REASON_TEMPLATES_0[r.code]
    /\ r.category = CodeCategory[r.code]

\* C23: every reason code a scorer emits, and every reason code of a
\* result, has a code that is a key of REASON_TEMPLATES and the catalog's
\* explanation for it; reason codes with the same code have the same
\* category and explanation in every call (each code belongs to one
\* category) and differ in points at most.
C23_Catalogue ==
    \A c \in DOMAIN pc :
        /\ \A i \in 1..Len(Emitted(c)) : Catalogued(Emitted(c)[i])
        /\ Returned(c) =>
              /\ \A i \in 1..Len(result[c].reason_codes) :
                    Catalogued(result[c].reason_codes[i])
              /\ \A i, j \in 1..Len(result[c].reason_codes) :
                    result[c].reason_codes[i].code = result[c].reason_codes[j].code =>
                        /\ result[c].reason_codes[i].category
                             = result[c].reason_codes[j].category
                        /\ result[c].reason_codes[i].explanation
                             = result[c].reason_codes[j].explanation

\* one result with SENS-DISC twice, for discipline (6 points) and for
\* attendance_discipline (3 points)
C23_Witness ==
    \E c \in DOMAIN pc :
        /\ Returned(c)
        /\ \E i, j \in 1..Len(result[c].reason_codes) :
              /\ result[c].reason_codes[i].code = "SENS-DISC"
              /\ result[c].reason_codes[j].code = "SENS-DISC"
              /\ result[c].reason_codes[i].points = 6
              /\ result[c].reason_codes[j].points = 3

----------------------------------------------------------------------------
(* Properties of the scorers taken together *)

\* the input fields each scorer declares
DeclaredFields ==
    [sens |-> {"data_types", "data_types_unknown"},
     expo |-> ExposureFields,
     sec  |-> Range(SecurityOrder),
     post |-> {"retention_policy_stated", "deletion_process"},
     int  |-> Range(IntegrationOrder)]

\* the answer set with the fields F of a and every other field of b
Merge(a, b, F) == [f \in DOMAIN a |-> IF f \in F THEN a[f] ELSE b[f]]

\* C24: each category's sub-score and reason codes depend on the scorer's
\* declared input fields alone (an answer set that agrees on them gives the
\* same category result whatever its other fields hold), and with the five
\* scorers evaluated in any order the breakdown and the total are those of
\* the order of calculate_risk_score.
C24_Independent ==
    \A c \in DOMAIN pc :
        /\ \A k \in DOMAIN NoLocals :
              locals[c][k] # Unassigned =>
                  \A b \in Fixtures :
                      locals[c][k] = Scorer(k, Merge(answers[c], b, DeclaredFields[k]))
        /\ Returned(c) =>
              /\ result[c].breakdown = calculate_risk_score(answers[c]).breakdown
              /\ result[c].total = calculate_risk_score(answers[c]).total
              /\ result[c].total
                   = locals[c].sens.score + locals[c].expo.score + locals[c].sec.score
                       + locals[c].post.score + locals[c].int.score

\* the integration scorer ran first and the sensitivity scorer has not run
\* yet: an order other than that of calculate_risk_score
C24_Witness ==
    \E c \in DOMAIN pc :
        /\ pc[c] = "scorers"
        /\ locals[c].int # Unassigned
        /\ locals[c].post # Unassigned
        /\ locals[c].sens = Unassigned
        /\ locals[c].expo = Unassigned
        /\ locals[c].int.score = 10
        /\ answers[c].retention_policy_stated = "yes"
        /\ answers[c].subprocessors_disclosed # "yes"

----------------------------------------------------------------------------
(* Properties of the stored records *)

\* the keys of one stored reason code
ReasonCodeKeys == {"code", "explanation", "category", "points"}

\* C25: after any sequence of submissions every stored record holds the
\* ScoreResult of its own stored answers: score_total is the total,
\* score_breakdown_json the breakdown, risk_tier the tier, and
\* reason_codes_json the same reason codes in the same order and number,
\* each with exactly the fields code, explanation, category and points.
C25_StoredVerbatim ==
    \A n \in 1..Len(risk_assessments) :
        LET row == risk_assessments[n]
            score_result == calculate_risk_score(row.answers_json)
        IN  /\ row.score_total = score_result.total
            /\ row.score_breakdown_json = score_result.breakdown
            /\ row.risk_tier.value = score_result.risk_tier
            /\ Len(row.reason_codes_json) = Len(score_result.reason_codes)
            /\ \A i \in 1..Len(row.reason_codes_json) :
                  /\ DOMAIN row.reason_codes_json[i] = ReasonCodeKeys
                  /\ \A k \in ReasonCodeKeys :
                        row.reason_codes_json[i][k] = score_result.reason_codes[i][k]

\* two rows stored, the second of the high-risk answers with its 97 points
\* and more reason codes than a report shows
C25_Witness ==
    /\ Len(risk_assessments) >= 2
    /\ risk_assessments[1].answers_json = low_risk_answers
    /\ risk_assessments[2].answers_json = high_risk_answers
    /\ risk_assessments[2].score_total = 97
    /\ risk_assessments[2].risk_tier.name = "CRITICAL"
    /\ Len(risk_assessments[2].reason_codes_json) > 5

----------------------------------------------------------------------------
(* Properties of the score as a whole *)

\* C26: the posture sub-score never exceeds 12, its cap 15 out of reach, so
\* with the other caps 30, 25, 20 and 10 the total is at most 97: no result
\* has total 98, 99 or 100, and some answer set has 97.
C26_TotalAtMost97 ==
    \A c \in DOMAIN pc :
        /\ Past(c, "sensitivity") => locals[c].sens.score <= 30
        /\ Past(c, "exposure") => locals[c].expo.score <= 25
        /\ Past(c, "security") => locals[c].sec.score <= 20
        /\ Past(c, "posture") => locals[c].post.score <= 12
        /\ Past(c, "integration") => locals[c].int.score <= 10
        /\ Returned(c) =>
              /\ result[c].breakdown.vendor_posture <= 12
              /\ result[c].total <= 97
              /\ result[c].total \notin {98, 99, 100}

\* no retention policy and no deletion process: posture at its largest, 12,
\* in a result of 97 points
C26_Witness ==
    \E c \in DOMAIN pc :
        /\ Returned(c)
        /\ answers[c].retention_policy_stated # "yes"
        /\ answers[c].deletion_process = "no"
        /\ locals[c].post.score = 12
        /\ result[c].total = 97
        /\ result[c].risk_tier = "Critical"

\* the sum of the points of a list of reason codes
RECURSIVE PointsSum(_)
PointsSum(reasons) ==
    IF reasons = <<>> THEN 0 ELSE Head(reasons).points + PointsSum(Tail(reasons))

\* the sum of the "unknown" weights of the fields F of an answer set
RECURSIVE UnknownSum(_, _, _)
UnknownSum(a, weights, F) ==
    IF F = {} THEN 0
    ELSE LET f == CHOOSE x \in F : TRUE
         IN  (IF a[f] = "unknown" THEN weights[f].unknown ELSE 0)
             + UnknownSum(a, weights, F \ {f})

\* the contributions that come without a reason code: the table points of
\* the data types outside SensitivityCode, and the weights of "unknown" in
\* the exposure fields other than subprocessors_disclosed and in the three
\* single-valued integration fields
Uncoded(a) ==
    [sens |-> IF a.data_types_unknown THEN 0
              ELSE TablePoints(SelectSeq(a.data_types,
                                         LAMBDA k : k \notin DOMAIN SensitivityCode)),
     expo |-> UnknownSum(a, ExposureWeights, ExposureFields \ {"subprocessors_disclosed"}),
     int  |-> UnknownSum(a, IntegrationWeights,
                         Range(IntegrationOrder) \ {"integration_types"})]

\* C27: for security and posture the points of the emitted reason codes sum
\* to the sub-score (every penalty has its reason code and the cap never
\* cuts); for sensitivity, exposure and integration the sub-score is
\* min(cap, raw sum of the contributions), the contributions being the
\* points of the reason codes and those that come without a code.
C27_ReasonPoints ==
    \A c \in DOMAIN pc :
        /\ Past(c, "security") => PointsSum(locals[c].sec.reasons) = locals[c].sec.score
        /\ Past(c, "posture") => PointsSum(locals[c].post.reasons) = locals[c].post.score
        /\ Past(c, "sensitivity") =>
              locals[c].sens.score
                = min(PointsSum(locals[c].sens.reasons) + Uncoded(answers[c]).sens, 30)
        /\ Past(c, "exposure") =>
              locals[c].expo.score
                = min(PointsSum(locals[c].expo.reasons) + Uncoded(answers[c]).expo, 25)
        /\ Past(c, "integration") =>
              locals[c].int.score
                = min(PointsSum(locals[c].int.reasons) + Uncoded(answers[c]).int, 10)

\* every field at its default: security 20 and posture 11 are the sums of
\* their codes' points, exposure 20 and integration 5 are not (3 and 0)
C27_Witness ==
    \E c \in DOMAIN pc :
        /\ answers[c] = AssessmentAnswers
        /\ Past(c, "integration")
        /\ locals[c].sec.score = 20 /\ PointsSum(locals[c].sec.reasons) = 20
        /\ locals[c].post.score = 11 /\ PointsSum(locals[c].post.reasons) = 11
        /\ locals[c].expo.score = 20 /\ PointsSum(locals[c].expo.reasons) = 3
        /\ locals[c].int.score = 5 /\ PointsSum(locals[c].int.reasons) = 0

\* the category whose scorer reads a single-valued field
CategoryOf(f) == CHOOSE k \in DOMAIN DeclaredFields : f \in DeclaredFields[k]

\* C28: with all other fields fixed, the total with a single-valued field at
\* "unknown" is at least the total with the field at its safest value and
\* at most the total with the field at its most penalized value; and
\* "unknown" adds a strictly positive amount to the raw
\* sum of its category (seen with the category's other fields benign, where
\* no cap cuts).
C28_Monotone ==
    \A c \in DOMAIN pc :
        Returned(c) =>
            \A f \in EnumFields :
                LET a == answers[c]
                    safest == calculate_risk_score([a EXCEPT ![f] = Benign[f]]).total
                    worst == calculate_risk_score([a EXCEPT ![f] = maximal_answers[f]]).total
                    alone == Scorer(CategoryOf(f), [Benign EXCEPT ![f] = "unknown"]).score
                IN  a[f] = "unknown" =>
                        /\ safest <= result[c].total
                        /\ result[c].total <= worst
                        /\ alone > 0
                        /\ alone <= Scorer(CategoryOf(f),
                                           [Benign EXCEPT ![f] = maximal_answers[f]]).score

\* integration_frequency "unknown" strictly between "nightly" and "realtime"
C28_Witness ==
    \E c \in DOMAIN pc :
        /\ Returned(c)
        /\ answers[c].integration_frequency = "unknown"
        /\ calculate_risk_score([answers[c] EXCEPT !.integration_frequency = "nightly"]).total
             < result[c].total
        /\ result[c].total
             < calculate_risk_score([answers[c] EXCEPT !.integration_frequency = "realtime"]).total

\* a list with entries i and i + 1 exchanged, and a list turned round
Exchange(seq, i) ==
    [j \in 1..Len(seq) |-> IF j = i THEN seq[i + 1] ELSE IF j = i + 1 THEN seq[i] ELSE seq[j]]
Reverse(seq) == [j \in 1..Len(seq) |-> seq[Len(seq) + 1 - j]]

\* reorderings of a list: every exchange of two neighbours, and the reversal
Reorderings(seq) == {Exchange(seq, i) : i \in 1..(Len(seq) - 1)} \cup {Reverse(seq)}

\* two lists with the same entries, each as many times
SameMultiset(s, t) ==
    /\ Len(s) = Len(t)
    /\ \A x \in Range(s) \cup Range(t) :
          Cardinality({i \in 1..Len(s) : s[i] = x}) = Cardinality({i \in 1..Len(t) : t[i] = x})

\* the sensitivity reason codes of a list that carry p points
SensitivityWith(reasons, p) ==
    SelectSeq(reasons, LAMBDA r : r.category = "sensitivity" /\ r.points = p)

\* C29: a reordering of data_types or of integration_types leaves total,
\* breakdown, risk_tier and the multiset of reason codes unchanged; the
\* reordered result differs from the result at most in the order of
\* sensitivity reason codes of equal points, which stand in the order of
\* their data types in data_types.
C29_Reordering ==
    \A c \in DOMAIN pc :
        Returned(c) =>
            /\ \A t \in Reorderings(answers[c].integration_types) :
                  calculate_risk_score([answers[c] EXCEPT !.integration_types = t])
                      = result[c]
            /\ \A d \in Reorderings(answers[c].data_types) :
                  LET reordered == calculate_risk_score([answers[c] EXCEPT !.data_types = d])
                  IN  /\ reordered.total = result[c].total
                      /\ reordered.breakdown = result[c].breakdown
                      /\ reordered.risk_tier = result[c].risk_tier
                      /\ SameMultiset(reordered.reason_codes, result[c].reason_codes)
                      /\ \A i \in 1..Len(result[c].reason_codes) :
                            reordered.reason_codes[i] # result[c].reason_codes[i] =>
                                /\ result[c].reason_codes[i].category = "sensitivity"
                                /\ reordered.reason_codes[i].category = "sensitivity"
                                /\ reordered.reason_codes[i].points
                                     = result[c].reason_codes[i].points
            /\ ~answers[c].data_types_unknown =>
                  \A p \in {DATA_TYPE_POINTS_0[k] : k \in DOMAIN SensitivityCode} :
                      LET types == SelectSeq(Flagged(answers[c].data_types),
                                             LAMBDA k : DATA_TYPE_POINTS_0[k] = p)
                          codes == SensitivityWith(result[c].reason_codes, p)
                      IN  /\ Len(codes) = Len(types)
                          /\ \A i \in 1..Len(types) : codes[i].code = SensitivityCode[types[i]]

\* <<health, iep_504>>: both codes carry 8 points and SENS-HEALTH comes
\* first, where <<iep_504, health>> puts SENS-IEP first
C29_Witness ==
    \E c \in DOMAIN pc :
        /\ Returned(c)
        /\ ~answers[c].data_types_unknown
        /\ answers[c].data_types = <<"health", "iep_504">>
        /\ result[c].reason_codes[1].code = "SENS-HEALTH"
        /\ result[c].reason_codes[2].code = "SENS-IEP"
        /\ calculate_risk_score([answers[c] EXCEPT !.data_types = <<"iep_504", "health">>])
              .reason_codes[1].code = "SENS-IEP"

\* C30: for every integer score, below 0 and above 100 included,
\* RiskTier.from_score(score).value is determine_risk_tier(score), so the
\* tier recomputed from a score_total is the member stored for the tier
\* the scorer returned.
C30_TiersAgree ==
    \A c \in DOMAIN pc :
        Returned(c) =>
            \A n \in 1..Len(risk_assessments) :
                /\ risk_assessments[n].score_total = result[c].total
                /\ risk_assessments[n].risk_tier \in RiskTierMembers
                /\ risk_assessments[n].risk_tier.value = result[c].risk_tier
                /\ risk_assessments[n].risk_tier = RiskTier(result[c].risk_tier)

\* both mappings applied to the score -1, below every total: Low
C30_Witness ==
    \E c \in DOMAIN pc :
        /\ Returned(c)
        /\ result[c].total = -1
        /\ result[c].risk_tier = "Low"
        /\ Len(risk_assessments) = 1
        /\ risk_assessments[1].risk_tier.name = "LOW"

====
